---- MODULE Spec2Model ----
(***************************************************************************)
(* A model of the master side of the key/value server: the Store actor     *)
(* (store.rs), the per-connection client task and its promotion to a       *)
(* replica feeder (client.rs), the shared SET handler (common_cli_rep.rs)  *)
(* and the encoders they use (types.rs, io.rs).                            *)
(*                                                                         *)
(* Strings that arrive on the wire are sequences of one-character strings  *)
(* (so that contains('*'), parse::<u64>() and len() are computed), byte    *)
(* vectors built by to_vec are sequences of characters, and the chunks a   *)
(* client task writes to its socket are TLA+ strings.                      *)
(***************************************************************************)
EXTENDS Integers, Sequences, FiniteSets, TLC

VARIABLES
    now,        \* SystemTime::now(), in milliseconds
    storeQ,     \* the Store's command channel (Receiver<StoreCommand>), FIFO
    storePc,    \* "recv" | "replicate" | "panicked": where store_loop stands
    storeCur,   \* the write being replicated: [key, value, until, bytes, idx]
    data,       \* Store.data : key -> StoreValue
    clients,    \* store_loop's clients: Vec<Sender<CommandResponse>>
    replicas,   \* store_loop's replicas: Vec<Sender<Vec<u8>>>
    clientRx,   \* per connection: the CommandResponse channel (client_rx)
    replicaRx,  \* per connection: the replica byte channel (replica_rx)
    pc,         \* per connection: where the connection task stands
    id,         \* per connection: Client.id (NoId before registration)
    pending,    \* per connection: the request the task is awaiting a reply to
    out,        \* per connection: the chunks written for the latest frame
    sock,       \* per connection: the chunks written once promoted to feeder
    closed,     \* the connections whose peer has closed its end
    cmdsLeft,   \* how many more frames the peers send (bound)
    frame,      \* history: the last frame read, the connection it was read on,
                \* the bytes it was decoded from when the step decoded it, and
                \* how the read ended ("data", "timeout", "error")
    expect,     \* history: per connection, acked of the key its last GET asked for
    accepted,   \* history: the writes in the order the Store dequeued them
    regAt,      \* history: Len(accepted) when a connection's sink was registered
    acked,      \* history: per connection and key, the value of the last +OK'd plain SET
    gone,       \* history: keys a read expired and no write has set since
    replicaPc,  \* where replica_loop stands ("off": the process has no replicaof)
    replicaOut, \* the chunks replica_loop has written to the master
    total_bytes, \* Replica.total_bytes
    ingested,   \* history: the bytes each frame took that the ingest loop decoded
    config,     \* config_loop's Configuration: store (the map) and replica
    updated,    \* history: the last call of update or bulk_update, the
                \* configuration it was made on and what it returned
    visible,    \* history: per connection, the value of the last write of the
                \* key of its last GET that any connection had submitted when
                \* the GET was sent, if that write was a SET without PX
    master,     \* where the process follows a master: the master's map and the
                \* frames its feeder has written that the ingest loop has yet
                \* to read
    rdbFile     \* the bytes of the snapshot file after its preamble, which the
                \* Store was loaded from at startup (<<>>: there was no file)

vars == <<now, storeQ, storePc, storeCur, data, clients, replicas, clientRx,
          replicaRx, pc, id, pending, out, sock, closed, cmdsLeft, accepted, regAt,
          acked, gone, frame, expect, replicaPc, replicaOut, total_bytes, ingested,
          config, updated, rdbFile, visible, master>>

\* The state of the task that follows a master, and the configuration, which
\* no connection task and no Store step writes.
followerVars == <<replicaPc, replicaOut, total_bytes, ingested, config, updated, rdbFile>>

\* What no step of a connection in command mode and no Store step writes.
replicaVars == <<followerVars, visible, master>>

-----------------------------------------------------------------------------
(* Bounds of the model *)

MaxCmds == 4
MaxTime == 1

\* The frames of a master that may wait unread by the ingest loop.
MaxLink == 2

Conns == {"c1", "c2", "c3"}

None == "None"

\* The id of a connection that has none yet, and regAt of a connection whose
\* sink is not registered.
NoId == 0 - 1

-----------------------------------------------------------------------------
(* Program constants *)

CMD_BUFFER == 1024
CLIENT_BUFFER == 32
REPLICA_BUFFER == 16

-----------------------------------------------------------------------------
(* Strings *)

RECURSIVE Str(_)
\* The characters of s as one string (what format!("{}", s) prints).
Str(s) == IF s = <<>> THEN "" ELSE Head(s) \o Str(Tail(s))

Digits == <<"0", "1", "2", "3", "4", "5", "6", "7", "8", "9">>

RECURSIVE Decimal(_)
\* The decimal digits of a natural number, as characters.
Decimal(n) == IF n < 10 THEN <<Digits[n + 1]>>
              ELSE Decimal(n \div 10) \o <<Digits[(n % 10) + 1]>>

DigitValue(ch) == CHOOSE d \in 0..9 : Digits[d + 1] = ch

IsDigit(ch) == \E d \in 1..10 : Digits[d] = ch

RECURSIVE DigitsValue(_)
DigitsValue(s) == IF s = <<>> THEN 0
                  ELSE 10 * DigitsValue(SubSeq(s, 1, Len(s) - 1)) + DigitValue(s[Len(s)])

\* Option<T>: <<>> is None and <<v>> is Some(v); Result<T, _> likewise, <<>>
\* standing for Err.
Some(v) == <<v>>
Absent == <<>>

\* str::parse::<u64>(): an optional '+', then one or more decimal digits.
ParseU64(s) ==
    LET body == IF s # <<>> /\ Head(s) = "+" THEN Tail(s) ELSE s
    IN  IF body # <<>> /\ \A i \in 1..Len(body) : IsDigit(body[i])
        THEN Some(DigitsValue(body))
        ELSE Absent

UpperChars == <<"A", "B", "C", "D", "E", "F", "G", "H", "I", "J", "K", "L", "M",
                "N", "O", "P", "Q", "R", "S", "T", "U", "V", "W", "X", "Y", "Z">>
LowerChars == <<"a", "b", "c", "d", "e", "f", "g", "h", "i", "j", "k", "l", "m",
                "n", "o", "p", "q", "r", "s", "t", "u", "v", "w", "x", "y", "z">>

ToAsciiLowercase(s) ==
    [i \in 1..Len(s) |->
        IF \E j \in 1..26 : UpperChars[j] = s[i]
        THEN LowerChars[CHOOSE j \in 1..26 : UpperChars[j] = s[i]]
        ELSE s[i]]

\* starts_with, where the source calls contains
StartsWith(s, ch) == s # <<>> /\ s[1] = ch

\* str::contains(char)
Contains(s, ch) == \E i \in 1..Len(s) : s[i] = ch

CRLF == <<"\r", "\n">>

-----------------------------------------------------------------------------
(* types.rs: RedisType and its byte encoding *)

RString(s) == [t |-> "String", s |-> s]
RInt(n) == [t |-> "Int", n |-> n]
RTimestamp(n) == [t |-> "Timestamp", n |-> n]
RArray(a) == [t |-> "Array", a |-> a]

RECURSIVE ConcatAll(_)
ConcatAll(ss) == IF ss = <<>> THEN <<>> ELSE Head(ss) \o ConcatAll(Tail(ss))

RECURSIVE ToVec(_)
ToVec(v) ==
    CASE v.t = "String"    -> <<"$">> \o Decimal(Len(v.s)) \o CRLF \o v.s \o CRLF
      [] v.t = "Int"       -> <<":">> \o Decimal(v.n) \o CRLF
      [] v.t = "Timestamp" -> <<":">> \o Decimal(v.n) \o CRLF
      [] v.t = "Array"     -> <<"*">> \o Decimal(Len(v.a)) \o CRLF
                              \o ConcatAll([i \in 1..Len(v.a) |-> ToVec(v.a[i])])

-----------------------------------------------------------------------------
(* io.rs: the chunk each writer hands to stream.write *)

WriteOk == "+OK\r\n"
WriteNil == "$-1\r\n"
WriteWrongtype == "-WRONGTYPE Operation against a key holding the wrong kind of value\r\n"
WriteSimpleError(message) == "-" \o message \o "\r\n"
WriteSimpleString(string) == "+" \o string \o "\r\n"
WriteString(s) == "$" \o Str(Decimal(Len(s))) \o "\r\n" \o Str(s) \o "\r\n"
WriteInteger(n) == ":" \o Str(Decimal(n)) \o "\r\n"
WriteArraySize(n) == "*" \o Str(Decimal(n)) \o "\r\n"
\* write_bytes: the length line, then the bytes, and no trailing CRLF.
WriteBytes(nbytes, bytes) == <<"$" \o Str(Decimal(nbytes)) \o "\r\n", bytes>>

RECURSIVE WriteValue(_)
\* RedisType::write: the chunks written for v, in order. A Timestamp is
\* todo!() in the source: the result then holds the chunk "todo!()".
WriteValue(v) ==
    CASE v.t = "String"    -> <<WriteString(v.s)>>
      [] v.t = "Int"       -> <<WriteInteger(v.n)>>
      [] v.t = "Timestamp" -> <<"todo!()">>
      [] v.t = "Array"     -> <<WriteArraySize(Len(v.a))>>
                              \o ConcatAll([i \in 1..Len(v.a) |-> WriteValue(v.a[i])])

\* Client::send_error_message
ErrorMessage(msg) == "-ERR " \o msg \o "\r\n"

-----------------------------------------------------------------------------
(* io.rs: the decoder. A stream is the sequence of the bytes still to be   *)
(* read from it, after which the peer has closed its end. A read yields    *)
(*   res    "Some", "None" (a read of zero bytes), "Err" or "Panic"        *)
(*   msg    the text of an Err                                             *)
(*   rest   the stream after the read                                      *)
(* and what it has decoded.                                                *)

\* read_line: how many bytes it takes, the first "\n" included.
LineEnd(s) ==
    IF \E i \in 1..Len(s) : s[i] = "\n"
    THEN CHOOSE i \in 1..Len(s) : s[i] = "\n" /\ \A j \in 1..(i - 1) : s[j] # "\n"
    ELSE Len(s)

\* get_string: a line without its last two bytes. The slice
\* buf[0..read_bytes - 2] is out of range for a line of one byte.
GetString(s) ==
    LET n == LineEnd(s)
    IN  IF n = 0
        THEN [res |-> "None", msg |-> "", string |-> <<>>, bytes |-> 0, rest |-> s]
        ELSE IF n < 2
             THEN [res |-> "Panic", msg |-> "", string |-> <<>>, bytes |-> n,
                   rest |-> SubSeq(s, n + 1, Len(s))]
             ELSE [res |-> "Some", msg |-> "", string |-> SubSeq(s, 1, n - 2),
                   bytes |-> n, rest |-> SubSeq(s, n + 1, Len(s))]

\* format_error
FormatError(chr) == "Protocol error: expected '$', got '" \o chr \o "'"

\* str::parse::<usize>(): as parse::<u64>() on the targets the program builds for.
ParseUsize(s) == ParseU64(s)

\* What a failed or empty read of a length or of a bulk string returns.
NoBulk(res, msg, rest) ==
    [res |-> res, msg |-> msg, string |-> <<>>, length |-> 0, bytes |-> 0, rest |-> rest]

\* read_bulk_length
ReadBulkLength(s) ==
    LET g == GetString(s)
    IN  IF g.res # "Some" THEN NoBulk(g.res, "", g.rest)
        ELSE IF g.string = <<>> THEN NoBulk("Err", FormatError(" "), g.rest)
        ELSE IF g.string[1] # "$" THEN NoBulk("Err", FormatError(g.string[1]), g.rest)
        ELSE LET string_size == ParseUsize(Tail(g.string))
             IN  IF string_size = Absent
                 THEN NoBulk("Err", "Protocol error: invalid bulk length", g.rest)
                 ELSE [res |-> "Some", msg |-> "", string |-> <<>>,
                       length |-> string_size[1], bytes |-> g.bytes, rest |-> g.rest]

\* read_exact on a stream that ends before n bytes: io::ErrorKind::UnexpectedEof
EarlyEof == "early eof"

\* read_bulk_bytes: the length line, then exactly that many bytes.
ReadBulkBytes(s) ==
    LET b == ReadBulkLength(s)
    IN  IF b.res # "Some" THEN b
        ELSE IF Len(b.rest) < b.length THEN NoBulk("Err", EarlyEof, <<>>)
        ELSE [b EXCEPT !.string = SubSeq(b.rest, 1, b.length),
                       !.bytes = b.bytes + b.length,
                       !.rest = SubSeq(b.rest, b.length + 1, Len(b.rest))]

\* A count that leaves out the two bytes after the payload.
BulkBytesNoCrlf(bytes, string_size) == bytes + string_size

\* The bytes a bulk string took: bytes + string_size + 2.
BulkBytes(bytes, string_size) == bytes + string_size + 2

\* read_bulk_string: the length line, then that many bytes and two more,
\* which are not looked at.
ReadBulkString(s) ==
    LET b == ReadBulkLength(s)
    IN  IF b.res # "Some" THEN b
        ELSE IF Len(b.rest) < b.length + 2 THEN NoBulk("Err", EarlyEof, <<>>)
        ELSE [b EXCEPT !.string = SubSeq(b.rest, 1, b.length),
                       !.bytes = BulkBytes(b.bytes, b.length),
                       !.rest = SubSeq(b.rest, b.length + 3, Len(b.rest))]

IsWhitespace(ch) == ch \in {" ", "\t", "\n", "\r"}

RECURSIVE SplitWhitespace(_, _)
\* str::split_whitespace: the maximal runs of non-whitespace, cur being the
\* run in hand.
SplitWhitespace(s, cur) ==
    IF s = <<>> THEN (IF cur = <<>> THEN <<>> ELSE <<cur>>)
    ELSE IF IsWhitespace(Head(s))
         THEN (IF cur = <<>> THEN <<>> ELSE <<cur>>) \o SplitWhitespace(Tail(s), <<>>)
         ELSE SplitWhitespace(Tail(s), Append(cur, Head(s)))

\* What read_command returns.
NoCommand(res, msg, rest) ==
    [res |-> res, msg |-> msg, payload |-> <<>>, length |-> 0, rest |-> rest]

RECURSIVE ReadChunks(_, _, _, _)
\* The loop of read_command: chunks bulk strings to go, cmd and bytes_read so far.
ReadChunks(s, chunks, cmd, bytes_read) ==
    IF chunks = 0
    THEN [res |-> "Some", msg |-> "", payload |-> cmd, length |-> bytes_read, rest |-> s]
    ELSE LET cmd_part == ReadBulkString(s)
         IN  IF cmd_part.res = "Some"
             THEN ReadChunks(cmd_part.rest, chunks - 1, Append(cmd, cmd_part.string),
                             bytes_read + cmd_part.bytes)
             ELSE NoCommand(cmd_part.res, cmd_part.msg, cmd_part.rest)

\* read_command
ReadCommand(s) ==
    LET text == GetString(s)
    IN  IF text.res # "Some" THEN NoCommand(text.res, "", text.rest)
        ELSE IF text.string # <<>> /\ text.string[1] = "*"
             THEN LET chunks == ParseUsize(Tail(text.string))
                  IN  IF chunks = Absent
                      THEN NoCommand("Err", "Protocol error: invalid multibulk length",
                                     text.rest)
                      ELSE ReadChunks(text.rest, chunks[1], <<>>, text.bytes)
             ELSE [res |-> "Some", msg |-> "", payload |-> SplitWhitespace(text.string, <<>>),
                   length |-> text.bytes, rest |-> text.rest]

-----------------------------------------------------------------------------
(* store.rs: the map *)

\* An entry whose deadline is the start of time.
ExpiredFromStart(value) == [kind |-> "Expirable", value |-> value, until |-> 0]

Permanent(value) == [kind |-> "Permanent", value |-> value]
Expirable(value, until) == [kind |-> "Expirable", value |-> value, until |-> until]

\* An insert that keeps the entry a key already has, where Store::write
\* replaces it.
WriteIfAbsent(d, key, value, maybe_until) ==
    LET store_val == IF maybe_until # Absent
                     THEN [kind |-> "Expirable", value |-> value, until |-> maybe_until[1]]
                     ELSE [kind |-> "Permanent", value |-> value]
    IN  [k \in DOMAIN d \cup {key} |-> IF k \in DOMAIN d THEN d[k] ELSE store_val]

\* Store::write
StoreWrite(d, key, value, maybe_until) ==
    LET store_val == IF maybe_until # Absent THEN Expirable(value, maybe_until[1])
                     ELSE Permanent(value)
    IN  [k \in DOMAIN d \cup {key} |-> IF k = key THEN store_val ELSE d[k]]

\* A remove that leaves the map as it is, where Store::read calls
\* self.data.remove(key).
KeepEntry(d, key) == d

\* HashMap::remove
Remove(d, key) == [k \in DOMAIN d \ {key} |-> d[k]]

\* A deadline test that still serves the entry at the deadline itself.
UnexpiredAtDeadline(t, until) == t <= until

\* The test of Store::read on an Expirable entry: is it still to be served?
Unexpired(t, until) == t < until

\* Store::read at time t: the Option<RedisType> returned and the map left.
StoreRead(d, key, t) ==
    IF key \in DOMAIN d
    THEN IF d[key].kind = "Permanent"
         THEN [value |-> Some(d[key].value), data |-> d]
         ELSE IF Unexpired(t, d[key].until)
              THEN [value |-> Some(d[key].value), data |-> d]
              ELSE [value |-> Absent, data |-> Remove(d, key)]
    ELSE [value |-> Absent, data |-> d]

\* Lines 140-143 of store_loop: the keys of the map, in HashMap iteration order
\* (any order: order is one of the permutations of the key set).
AllKeysArray(order) == RArray([i \in 1..Len(order) |-> RString(order[i])])

KeyOrders(S) ==
    {f \in [1..Cardinality(S) -> S] : \A i, j \in 1..Cardinality(S) : i # j => f[i] # f[j]}

\* The payloads the Store replicates (store_loop, Set and SetEx).
\* A frame with the key and the value in each other's place.
SetPayloadSwapped(key, string) ==
    RArray(<<RString(<<"S", "E", "T">>), RString(string), RString(key)>>)

SetPayload(key, string) ==
    RArray(<<RString(<<"S", "E", "T">>), RString(key), RString(string)>>)
SetExPayload(key, string, pxat) ==
    RArray(<<RString(<<"S", "E", "T">>), RString(key), RString(string),
             RString(<<"P", "X", "A", "T">>), RTimestamp(pxat)>>)

WritePayload(w) ==
    IF w.until = Absent THEN SetPayload(w.key, w.value.s)
    ELSE SetExPayload(w.key, w.value.s, w.until[1])

-----------------------------------------------------------------------------
(* rdb.rs: the entries of a snapshot file. A file is the sequence of its
   bytes; a read gives what it read and the bytes that remain. *)

RdbErr(msg) == [ok |-> FALSE, msg |-> msg]

\* read_exact of n bytes (read_u8, read_u32, read_u64_le, ...): an error when
\* the file ends before them.
ReadBytes(f, n) ==
    IF Len(f) >= n
    THEN [ok |-> TRUE, bytes |-> SubSeq(f, 1, n), rest |-> SubSeq(f, n + 1, Len(f))]
    ELSE RdbErr("early eof")

RECURSIVE BigEndian(_)
\* The unsigned value of bytes, most significant first.
BigEndian(bytes) ==
    IF bytes = <<>> THEN 0
    ELSE BigEndian(SubSeq(bytes, 1, Len(bytes) - 1)) * 256 + bytes[Len(bytes)]

RECURSIVE LittleEndian(_)
\* The unsigned value of bytes, least significant first.
LittleEndian(bytes) ==
    IF bytes = <<>> THEN 0 ELSE Head(bytes) + 256 * LittleEndian(Tail(bytes))

RECURSIVE Pow256(_)
Pow256(n) == IF n = 0 THEN 1 ELSE 256 * Pow256(n - 1)

\* The two's complement reading of the unsigned value v of n bytes. The
\* four-byte values of the model's files are below 2^31 and read as themselves.
Signed(v, n) == IF n < 4 /\ 2 * v >= Pow256(n) THEN v - Pow256(n) ELSE v

\* i8, i16, i32 ::to_string
SignedToString(v) == IF v < 0 THEN <<"-">> \o Decimal(0 - v) ELSE Decimal(v)

\* The character of an ASCII byte: digits and lower case letters, the bytes
\* the strings of the model's files are made of.
Chr(b) == IF b \in 48..57 THEN Digits[b - 47]
          ELSE IF b \in 97..122 THEN LowerChars[b - 96] ELSE "?"

\* read_length_encoded, length type 1: the six bits above the next byte.
Length14(remaining_bits, b) ==
    IF ~b.ok THEN b
    ELSE [ok |-> TRUE, kind |-> "Int", n |-> b.bytes[1] + remaining_bits * 256,
          rest |-> b.rest]

\* read_length_encoded, length type 2: read_u32.
Length32(b) ==
    IF ~b.ok THEN b
    ELSE [ok |-> TRUE, kind |-> "Int", n |-> BigEndian(b.bytes), rest |-> b.rest]

\* read_length_encoded once its first byte is read.
LengthOf(first_byte, rest) ==
    CASE first_byte \div 64 = 0 ->
            [ok |-> TRUE, kind |-> "Int", n |-> first_byte % 64, rest |-> rest]
      [] first_byte \div 64 = 1 -> Length14(first_byte % 64, ReadBytes(rest, 1))
      [] first_byte \div 64 = 2 -> Length32(ReadBytes(rest, 4))
      [] OTHER ->
            [ok |-> TRUE, kind |-> "Special", n |-> first_byte % 64, rest |-> rest]

ReadLengthEncodedAt(first) ==
    IF ~first.ok THEN first ELSE LengthOf(first.bytes[1], first.rest)

\* read_length_encoded
ReadLengthEncoded(f) == ReadLengthEncodedAt(ReadBytes(f, 1))

\* The integer of a special encoding read least significant byte first.
IntBytesLe(bytes) == LittleEndian(bytes)

\* The integer of a special encoding as read_i8, read_i16 and read_i32 read
\* it: most significant byte first.
IntBytes(bytes) == BigEndian(bytes)

\* take(length).read_to_string: the n bytes there are of the length asked
\* for, as UTF-8.
TakeToString(bytes, rest) ==
    IF \E k \in 1..Len(bytes) : bytes[k] >= 128
    THEN RdbErr("stream did not contain valid UTF-8")
    ELSE [ok |-> TRUE, string |-> [k \in 1..Len(bytes) |-> Chr(bytes[k])], rest |-> rest]

Min(a, b) == IF a <= b THEN a ELSE b

\* read_i8, read_i16, read_i32 and to_string
ReadIntString(b, width) ==
    IF ~b.ok THEN b
    ELSE [ok |-> TRUE, string |-> SignedToString(Signed(IntBytes(b.bytes), width)),
          rest |-> b.rest]

\* read_string once its length is read.
RdbReadStringAt(l) ==
    IF ~l.ok THEN l
    ELSE IF l.kind = "Int"
    THEN TakeToString(SubSeq(l.rest, 1, Min(l.n, Len(l.rest))),
                      SubSeq(l.rest, Min(l.n, Len(l.rest)) + 1, Len(l.rest)))
    ELSE CASE l.n = 0 -> ReadIntString(ReadBytes(l.rest, 1), 1)
           [] l.n = 1 -> ReadIntString(ReadBytes(l.rest, 2), 2)
           [] l.n = 2 -> ReadIntString(ReadBytes(l.rest, 4), 4)
           [] l.n = 3 -> RdbErr("Unimplemented: reading compressed string")
           [] OTHER   -> RdbErr("Unknown encoding")

\* rdb.rs read_string: the string, or the decimal digits of an integer.
RdbReadString(f) == RdbReadStringAt(ReadLengthEncoded(f))

\* A reading of the 0xFD deadline that takes the seconds for milliseconds.
SecsAsMillis(s) == s

\* The time unit of the model is the millisecond: Duration::from_secs.
FromSecs(s) == s * 1000

\* An entry that holds the integer 0 whatever was read.
IntEntry(key, value) ==
    IF ~value.ok THEN value
    ELSE [ok |-> TRUE,
          entry |-> <<[key |-> key.string, value |-> RInt(0), expires |-> Absent]>>,
          rest |-> value.rest]

\* The entry of type 0 once its key and its value are read.
StringEntry(key, value) ==
    IF ~value.ok THEN value
    ELSE [ok |-> TRUE,
          entry |-> <<[key |-> key.string, value |-> RString(value.string),
                       expires |-> Absent]>>,
          rest |-> value.rest]

\* An entry of type 0..14 once its key is read.
TypedEntry(code, key) ==
    IF ~key.ok THEN key
    ELSE IF code = 0 THEN StringEntry(key, RdbReadString(key.rest))
    ELSE RdbErr("Reading entry: unsupported data type")

\* .map(|mut rec| { rec.expires = expires_at; rec }) on what the inner call gave
WithExpiry(rec, expires_at) ==
    IF ~rec.ok \/ rec.entry = <<>> THEN rec
    ELSE [rec EXCEPT !.entry = <<[rec.entry[1] EXCEPT !.expires = Some(expires_at)]>>]

\* expires_at of 0xFC (read_u64_le, milliseconds) and of 0xFD (read_u32_le,
\* seconds), from the bytes read.
ExpiresAt(code, bytes) ==
    IF code = 252 THEN LittleEndian(bytes) ELSE FromSecs(LittleEndian(bytes))

RECURSIVE PrivNextEntry(_)
RECURSIVE ExpiringEntry(_, _)
RECURSIVE NextEntryAt(_)

\* 0xFC and 0xFD once the deadline is read: the entry that follows, with it.
ExpiringEntry(code, b) ==
    IF ~b.ok THEN b
    ELSE WithExpiry(PrivNextEntry(b.rest), ExpiresAt(code, b.bytes))

\* priv_next_entry once its first byte is read.
NextEntryAt(first) ==
    IF ~first.ok THEN first
    ELSE CASE first.bytes[1] \in 0..14 ->
                 TypedEntry(first.bytes[1], RdbReadString(first.rest))
           [] first.bytes[1] = 252 -> ExpiringEntry(252, ReadBytes(first.rest, 8))
           [] first.bytes[1] = 253 -> ExpiringEntry(253, ReadBytes(first.rest, 4))
           [] first.bytes[1] \in {255, 254} ->
                 [ok |-> TRUE, entry |-> <<>>, rest |-> first.rest]
           [] OTHER -> RdbErr("Reading entry: unrecognized code")

\* Rdb::priv_next_entry: an entry (entry = <<e>>), the end of the database
\* (entry = <<>>), or an error.
PrivNextEntry(f) == NextEntryAt(ReadBytes(f, 1))

RECURSIVE LoadRdb(_, _)
RECURSIVE LoadEntry(_, _)

\* The body of the startup loop on what read_next_entry gave: the entry is
\* written to the Store with its expiry; an error aborts the startup.
LoadEntry(d, e) ==
    IF ~e.ok THEN [ok |-> FALSE, data |-> d]
    ELSE IF e.entry = <<>> THEN [ok |-> TRUE, data |-> d]
    ELSE LoadRdb(StoreWrite(d, e.entry[1].key, e.entry[1].value, e.entry[1].expires),
                 e.rest)

\* The startup loop: while let Some(entry) = rdb.read_next_entry().await?
LoadRdb(d, f) == LoadEntry(d, PrivNextEntry(f))

-----------------------------------------------------------------------------
(* Messages *)

\* StoreCommand. The field from (the sending connection) and the field seen
\* (the connections that had been sent +FULLRESYNC when the command was
\* submitted) are history: no code reads them.
InitClientCmd(tx) == [cmd |-> "InitClient", tx |-> tx]
InitReplicaCmd(tx) == [cmd |-> "InitReplica", tx |-> tx]
SetCmd(key, value, from, seen) ==
    [cmd |-> "Set", key |-> key, value |-> value, from |-> from, seen |-> seen]
SetExCmd(key, value, until, from, seen) ==
    [cmd |-> "SetEx", key |-> key, value |-> value, until |-> until,
     from |-> from, seen |-> seen]
GetCmd(i, key, from) == [cmd |-> "Get", id |-> i, key |-> key, from |-> from]
AllKeysCmd(i, from) == [cmd |-> "AllKeys", id |-> i, from |-> from]
ReplicaCountCmd(i, from) == [cmd |-> "ReplicaCount", id |-> i, from |-> from]

\* CommandResponse. The fields re (the request answered) and live (whether
\* the key was in the map with no deadline or a deadline still ahead when the
\* Store read it) are history.
ClientIdResp(i) == [resp |-> "ClientId", id |-> i]
GetResp(value, re, live) ==
    [resp |-> "Get", value |-> value, re |-> re, live |-> live]
KeysResp(value, re) == [resp |-> "Keys", value |-> value, re |-> re]
ReplicaCountResp(n, re) == [resp |-> "ReplicaCount", n |-> n, re |-> re]

-----------------------------------------------------------------------------
(* common_cli_rep.rs and client.rs: the command handlers.                   *)
(* A handler yields what the task does with one frame:                     *)
(*   res   "Ok", "Err" (bail!), "Wait" (a Store reply is awaited),         *)
(*         "Replica" (promotion) or "Panic"                                *)
(*   out   the chunks it wrote before returning                            *)
(*   msg   the error text of an Err                                        *)
(*   send  the StoreCommands it sent (none or one)                         *)
(*   pend  for "Wait": the handler that awaits and the key it asked for    *)

NoRequest == [handler |-> "", key |-> <<>>]

\* frame before any frame has been read.
NoFrame == [conn |-> "", cmd |-> <<>>, wire |-> <<>>, ev |-> ""]

Ok(chunks) ==
    [res |-> "Ok", out |-> chunks, msg |-> "", send |-> <<>>, pend |-> NoRequest]
Bail(msg) ==
    [res |-> "Err", out |-> <<>>, msg |-> msg, send |-> <<>>, pend |-> NoRequest]
Await(cmd, handler, key) ==
    [res |-> "Wait", out |-> <<>>, msg |-> "", send |-> <<cmd>>,
     pend |-> [handler |-> handler, key |-> key]]

\* An option test that lets every option through.
AnyOption(opt) == TRUE

\* The option test of handle_set: args[2].to_ascii_lowercase() == "px"
IsPx(opt) == Str(ToAsciiLowercase(opt)) = "px"

\* handle_set at time t, on connection c (from and seen are history).
HandleSet(args, t, c, seen) ==
    IF Len(args) \in {2, 4}
    THEN IF Len(args) = 4 /\ ~IsPx(args[3])
         THEN Bail("syntax error")
         ELSE IF Len(args) = 4 /\ ParseU64(args[4]) = Absent
              THEN Bail("value is not an integer or out of range")
              ELSE LET key == args[1]
                       value == RString(args[2])
                       cmd == IF Len(args) = 4
                              THEN SetExCmd(key, value, t + ParseU64(args[4])[1], c, seen)
                              ELSE SetCmd(key, value, c, seen)
                   IN  [res |-> "Ok", out |-> <<WriteOk>>, msg |-> "",
                        send |-> <<cmd>>, pend |-> NoRequest]
    ELSE Bail("wrong number of arguments for 'set' command")

HandlePing(args) ==
    CASE Len(args) = 0 -> Ok(<<"+PONG\r\n">>)
      [] Len(args) = 1 -> Ok(<<WriteString(args[1])>>)
      [] OTHER         -> Bail("wrong number of arguments for 'ping' command")

HandleEcho(args) ==
    IF Len(args) = 1 THEN Ok(<<WriteString(args[1])>>)
    ELSE Bail("wrong number of arguments for 'echo' command")

Chars(w) ==
    CASE w = "server"             -> <<"s", "e", "r", "v", "e", "r">>
      [] w = "codecrafters-redis" -> <<"c", "o", "d", "e", "c", "r", "a", "f", "t", "e",
                                       "r", "s", "-", "r", "e", "d", "i", "s">>
      [] w = "version"            -> <<"v", "e", "r", "s", "i", "o", "n">>
      [] w = "0.2"                -> <<"0", ".", "2">>
      [] w = "proto"              -> <<"p", "r", "o", "t", "o">>
      [] w = "mode"               -> <<"m", "o", "d", "e">>
      [] w = "standalone"         -> <<"s", "t", "a", "n", "d", "a", "l", "o", "n", "e">>
      [] w = "role"               -> <<"r", "o", "l", "e">>
      [] w = "master"             -> <<"m", "a", "s", "t", "e", "r">>
      [] w = "modules"            -> <<"m", "o", "d", "u", "l", "e", "s">>

HELLO_INFO ==
    RArray(<<RString(Chars("server")), RString(Chars("codecrafters-redis")),
             RString(Chars("version")), RString(Chars("0.2")),
             RString(Chars("proto")), RInt(2),
             RString(Chars("mode")), RString(Chars("standalone")),
             RString(Chars("role")), RString(Chars("master")),
             RString(Chars("modules")), RArray(<<>>)>>)

HandleHello(args) ==
    IF Len(args) = 0 THEN Ok(WriteValue(HELLO_INFO))
    ELSE Bail("wrong number of arguments for 'hello' command")

HandleGet(args, i, c) ==
    IF Len(args) = 1
    THEN Await(GetCmd(i, args[1], c), "get", args[1])
    ELSE Bail("wrong number of arguments for 'get' command")

HELP_LINES ==
    <<"CONFIG <subcommand> [<arg> [value] [opt] ...]. Subcommands are:",
      "GET <pattern>",
      "    Return parameters matching the glob-like <pattern> and their values.",
      "HELP",
      "    Prints this help.">>

HandleConfigHelp(args) ==
    IF Len(args) = 0
    THEN Ok(<<WriteArraySize(Len(HELP_LINES))>>
            \o [i \in 1..Len(HELP_LINES) |-> WriteSimpleString(HELP_LINES[i])])
    ELSE Bail("wrong number of arguments for 'config|help' command")

\* handle_config. CONFIG GET is answered by the Config actor, which this
\* model does not hold: its reply is the chunk "<config get>".
HandleConfig(args) ==
    IF Len(args) = 0
    THEN Bail("wrong number of arguments for 'config' command")
    ELSE LET sub == Str(ToAsciiLowercase(args[1]))
         IN  CASE sub = "get"  -> IF Len(args) = 1
                                  THEN Bail("wrong number of arguments for 'config|get' command")
                                  ELSE Ok(<<"<config get>">>)
               [] sub = "help" -> HandleConfigHelp(Tail(args))
               [] OTHER        -> Bail("unknown subcommand '" \o Str(args[1])
                                       \o "'. Try CONFIG HELP")

HandleKeys(args, i, c) ==
    IF Len(args) # 1
    THEN Bail("wrong number of arguments for 'keys' command")
    ELSE IF args[1] = <<"*">>
         THEN Await(AllKeysCmd(i, c), "keys", <<>>)
         ELSE IF Contains(args[1], "*")
              THEN Bail("general pattern matching unsupported")
              ELSE Await(GetCmd(i, args[1], c), "keys_literal", args[1])

\* handle_replconf
HandleReplconf(args) == Ok(<<WriteSimpleString("OK")>>)

-----------------------------------------------------------------------------
(* config.rs, info.rs, replica.rs: the configuration and what INFO prints *)

ACCEPTABLE_KEYS ==
    {"bind-source-addr", "dbfilename", "dir", "port", "replicaof", "master_replid"}

\* DEFAULT_CONFIG
DEFAULT_CONFIG ==
    [k \in {"bind-source-addr", "dbfilename", "dir", "port"} |->
        CASE k = "bind-source-addr" -> "127.0.0.1"
          [] k = "dbfilename"       -> "dump.rdb"
          [] k = "dir"              -> "."
          [] k = "port"             -> "6379"]

\* Sha1::new().finalize() printed in hex: the digest of the empty input.
ReplidChars ==
    <<"d","a","3","9","a","3","e","e","5","e","6","b","4","b","0","d","3","2","5","5",
      "b","f","e","f","9","5","6","0","1","8","9","0","a","f","d","8","0","7","0","9">>

Replid == Str(ReplidChars)

\* ReplicaInfo::new(): a hasher that has been fed nothing, offset 0.
ReplicaInfoNew == [fed |-> <<>>, offset |-> 0]

\* An id that grows with the offset.
DigestOfOffset(replica) == Replid \o Str(Decimal(replica.offset))

\* ReplicaInfo::digest_string: the hex digest of what the hasher was fed.
\* Nothing feeds it, so the only digest taken is the one of the empty input.
DigestString(replica) == Replid

\* Configuration::new() and Configuration::default()
ConfigurationNew == [store |-> [k \in {} |-> ""], replica |-> ReplicaInfoNew]
ConfigurationDefault == [store |-> DEFAULT_CONFIG, replica |-> ReplicaInfoNew]

\* Configuration::get
ConfigGet(cfg, key) ==
    IF key \in DOMAIN cfg.store THEN Some(cfg.store[key]) ELSE Absent

\* The configuration of a process started with --replicaof.
ConfigurationReplicaOf ==
    [ConfigurationDefault EXCEPT
        !.store = [k \in DOMAIN DEFAULT_CONFIG \cup {"replicaof"} |->
                      IF k = "replicaof" THEN "localhost 6379" ELSE DEFAULT_CONFIG[k]]]

\* An update that takes every key.
AnyKey(key) == TRUE

\* The test of Configuration::update: ACCEPTABLE_KEYS.contains(&key)
Acceptable(key) == key \in ACCEPTABLE_KEYS

\* Configuration::update: cfg is the configuration afterwards, current the
\* value the key held before.
ConfigUpdate(cfg, key, value) ==
    IF Acceptable(key)
    THEN [ok |-> TRUE, current |-> ConfigGet(cfg, key),
          cfg |-> [cfg EXCEPT !.store =
                     [k \in DOMAIN cfg.store \cup {key} |->
                         IF k = key THEN value ELSE cfg.store[k]]]]
    ELSE [ok |-> FALSE, current |-> Absent, cfg |-> cfg]

RECURSIVE ConfigBulkUpdate(_, _)
\* Configuration::bulk_update: the pairs in order, up to the first that fails.
ConfigBulkUpdate(cfg, pairs) ==
    IF pairs = <<>> THEN [ok |-> TRUE, cfg |-> cfg]
    ELSE LET r == ConfigUpdate(cfg, Head(pairs)[1], Head(pairs)[2])
         IN  IF r.ok THEN ConfigBulkUpdate(r.cfg, Tail(pairs))
             ELSE [ok |-> FALSE, cfg |-> r.cfg]

\* updated before any call.
NoCall == [call |-> "", pairs |-> <<>>, before |-> ConfigurationNew, ok |-> TRUE,
           current |-> Absent]

\* Configuration::is_replica
IsReplica(cfg) == ConfigGet(cfg, "replicaof") # Absent

RECURSIVE JoinText(_, _)
\* [String]::join(sep)
JoinText(parts, sep) ==
    IF parts = <<>> THEN ""
    ELSE IF Len(parts) = 1 THEN parts[1]
    ELSE parts[1] \o sep \o JoinText(Tail(parts), sep)

SEPARATOR == "\r\n"
SECTIONS == <<"replication">>

\* The slave count of a master that counts its registered replicas.
CountedSlaves == Str(Decimal(Len(replicas)))

\* connected_slaves as info_on prints it.
ConnectedSlaves == "0"

\* info::info_on
InfoOn(cfg, section) ==
    JoinText(IF section = "replication"
             THEN <<"# Replication",
                    IF ~IsReplica(cfg) THEN "role:master" ELSE "role:slave",
                    "connected_slaves:" \o ConnectedSlaves,
                    "master_replid:" \o DigestString(cfg.replica),
                    "master_repl_offset:" \o Str(Decimal(cfg.replica.offset))>>
             ELSE <<>>,
             SEPARATOR)

\* info::all_info
AllInfo(cfg) == JoinText([i \in 1..Len(SECTIONS) |-> InfoOn(cfg, SECTIONS[i])], SEPARATOR)

RECURSIVE Unique(_)
\* Itertools::unique: the first occurrence of each element, in order.
Unique(seq) ==
    IF seq = <<>> THEN <<>>
    ELSE LET init == Unique(SubSeq(seq, 1, Len(seq) - 1))
             last == seq[Len(seq)]
         IN  IF \E i \in 1..Len(init) : init[i] = last THEN init
             ELSE Append(init, last)

\* RedisType::String written: write_string on a text.
WriteText(t) == "$" \o Str(Decimal(Len(t))) \o "\r\n" \o t \o "\r\n"

\* A test that looks at the joined text.
AnswerHasText(answer) == JoinText(answer, "") # ""

\* The test of handle_info on what InfoOn answered: answer.len() > 0
AnswerNonEmpty(answer) == Len(answer) > 0

\* handle_info: AllInfo or InfoOn is sent to the Config task, whose
\* configuration nothing writes once it runs; its answer is taken with the
\* request as one step.
HandleInfo(args, cfg) ==
    LET sections == Unique([i \in 1..Len(args) |-> Str(ToAsciiLowercase(args[i]))])
        answer   == [i \in 1..Len(sections) |-> InfoOn(cfg, sections[i])]
    IN  Ok(<<WriteText(IF args = <<>>
                       THEN AllInfo(cfg) \o "\r\n"
                       ELSE IF AnswerNonEmpty(answer)
                            THEN JoinText(answer, "") \o "\r\n"
                            ELSE "")>>)

RECURSIVE QuotedArgs(_)
\* args.iter().map(|s| format!("'{}'", s)).join(" ")
QuotedArgs(args) ==
    IF args = <<>> THEN ""
    ELSE "'" \o Str(Head(args)) \o "'"
         \o (IF Len(args) > 1 THEN " " ELSE "") \o QuotedArgs(Tail(args))

\* Client::dispatch on a non-empty command vector.
Dispatch(cmd_vec, t, i, c, seen) ==
    LET name == cmd_vec[1]
        args == Tail(cmd_vec)
        lower == Str(ToAsciiLowercase(name))
    IN  CASE lower = "ping"     -> HandlePing(args)
          [] lower = "echo"     -> HandleEcho(args)
          [] lower = "hello"    -> HandleHello(args)
          [] lower = "set"      -> HandleSet(args, t, c, seen)
          [] lower = "get"      -> HandleGet(args, i, c)
          [] lower = "config"   -> HandleConfig(args)
          [] lower = "keys"     -> HandleKeys(args, i, c)
          [] lower = "info"     -> HandleInfo(args, config)
          [] lower = "replconf" -> HandleReplconf(args)
          [] lower = "psync"    ->
                IF args # <<<<"?">>, <<"-", "1">>>>
                THEN [res |-> "Err",
                      out |-> <<WriteSimpleError("ERR Unsupported PSYNC arguments")>>,
                      msg |-> "wrong arguments for PSYNC", send |-> <<>>,
                      pend |-> NoRequest]
                ELSE [res |-> "Replica", out |-> <<>>, msg |-> "", send |-> <<>>,
                      pend |-> NoRequest]
          [] OTHER ->
                Bail("Client: unknown command '" \o Str(name)
                     \o "', with args beginning with: " \o QuotedArgs(args))

-----------------------------------------------------------------------------
(* The connection tasks (client.rs: client_loop, client_replica_loop) *)

EmptyMap == [k \in {} |-> None]

Range(f) == {f[x] : x \in DOMAIN f}

\* A channel whose receiving task has ended: a send on it returns Err.
TaskEnded(c) == pc[c] \in {"done", "panicked"}

\* handle_psync: the line that carries the id ReplicaDigest answered.
FullresyncLine ==
    WriteSimpleString("FULLRESYNC " \o DigestString(ReplicaInfoNew) \o " 0")

\* empty_rdb of handle_psync: 18 bytes.
EmptyRdb == "REDIS0010\\xff\\x00\\x00\\x00\\x00\\x00\\x00\\x00\\x00"
EmptyRdbLen == 18

\* The connections that have been sent +FULLRESYNC.
SentFullresync == {c \in Conns : FullresyncLine \in Range(out[c])}

\* client_loop up to the registration: store_tx.send(InitClient(client_tx)).
ClientInit(c) ==
    /\ pc[c] = "start"
    /\ Len(storeQ) < CMD_BUFFER
    /\ IF storePc = "panicked"
       THEN /\ pc' = [pc EXCEPT ![c] = "done"]
            /\ UNCHANGED storeQ
       ELSE /\ storeQ' = Append(storeQ, InitClientCmd(c))
            /\ pc' = [pc EXCEPT ![c] = "wait_id"]
    /\ UNCHANGED <<replicaVars, now, storePc, storeCur, data, clients, replicas, clientRx, replicaRx,
                   id, pending, out, sock, closed, cmdsLeft, accepted, regAt, acked, gone, frame, expect>>

\* client_rx.recv().await.unwrap() for the ClientId
ClientRecvId(c) ==
    /\ pc[c] = "wait_id"
    /\ clientRx[c] # <<>>
    /\ LET msg == Head(clientRx[c])
       IN  IF msg.resp = "ClientId"
           THEN /\ id' = [id EXCEPT ![c] = msg.id]
                /\ pc' = [pc EXCEPT ![c] = "read"]
           ELSE /\ pc' = [pc EXCEPT ![c] = "panicked"]
                /\ UNCHANGED id
    /\ clientRx' = [clientRx EXCEPT ![c] = Tail(@)]
    /\ UNCHANGED <<replicaVars, now, storeQ, storePc, storeCur, data, clients, replicas, replicaRx,
                   pending, out, sock, closed, cmdsLeft, accepted, regAt, acked, gone, frame, expect>>

\* The history acked after connection c has sent the StoreCommands in send.
AckedAfter(c, send) ==
    IF send = <<>> \/ send[1].cmd \notin {"Set", "SetEx"}
    THEN acked
    ELSE LET key == send[1].key
         IN  [d \in Conns |->
                IF d = c /\ send[1].cmd = "Set"
                THEN [k \in DOMAIN acked[d] \cup {key} |->
                        IF k = key THEN send[1].value ELSE acked[d][k]]
                ELSE [k \in DOMAIN acked[d] \ {key} |-> acked[d][k]]]

\* A handler that returns once its request is sent, the reply not awaited.
ReplyNotAwaited(res) ==
    CASE res = "Replica" -> "psync1"
      [] res = "Panic"   -> "panicked"
      [] OTHER           -> "read"

\* The pc of the task after a handler has returned res.
AfterDispatch(res) ==
    CASE res = "Wait"    -> "wait"
      [] res = "Replica" -> "psync1"
      [] res = "Panic"   -> "panicked"
      [] OTHER           -> "read"

IsWriteCmd(m) == m.cmd \in {"Set", "SetEx"}

\* The writes submitted to the Store so far, in the order of their sends:
\* those it has dequeued, then those in its queue.
SubmittedWrites ==
    [i \in 1..Len(accepted) |->
        [key |-> accepted[i].key, value |-> accepted[i].value,
         plain |-> accepted[i].until = Absent]]
    \o [i \in 1..Len(SelectSeq(storeQ, IsWriteCmd)) |->
          [key |-> SelectSeq(storeQ, IsWriteCmd)[i].key,
           value |-> SelectSeq(storeQ, IsWriteCmd)[i].value,
           plain |-> SelectSeq(storeQ, IsWriteCmd)[i].cmd = "Set"]]

\* The value of the last submitted write of key, if that is a SET without PX.
LastPlainWrite(w, key) ==
    IF \A i \in 1..Len(w) : w[i].key # key THEN Absent
    ELSE IF w[CHOOSE i \in 1..Len(w) :
                 w[i].key = key /\ \A j \in (i + 1)..Len(w) : w[j].key # key].plain
         THEN Some(w[CHOOSE i \in 1..Len(w) :
                       w[i].key = key /\ \A j \in (i + 1)..Len(w) : w[j].key # key].value)
         ELSE Absent

\* No master is followed, or the master has accepted no write.
NoMaster == [data |-> EmptyMap, link |-> <<>>]

\* A send that puts the message at the head of the queue.
EnqueueFront(q, send) == send \o q

\* store_tx.send(..).await: the message goes to the back of the Store's queue.
Enqueue(q, send) == q \o send

\* One iteration of client_loop in which read_command returned
\* Ok(Some(Command)) with payload cmd_vec, decoded from the bytes w: the
\* command is dispatched, an Err is reported.
ClientDispatch(c, cmd_vec, w) ==
    /\ pc[c] = "read"
    /\ cmdsLeft > 0
    /\ Len(storeQ) < CMD_BUFFER
    /\ cmdsLeft' = cmdsLeft - 1
    /\ frame' = [conn |-> c, cmd |-> cmd_vec, wire |-> w, ev |-> "data"]
    /\ IF cmd_vec = <<>>
       THEN \* cmd_vec[0] is out of bounds
            /\ pc' = [pc EXCEPT ![c] = "panicked"]
            /\ out' = [out EXCEPT ![c] = <<>>]
            /\ UNCHANGED <<storeQ, pending, acked, expect, visible>>
       ELSE LET r == Dispatch(cmd_vec, now, id[c], c, SentFullresync)
            IN  IF r.send # <<>> /\ storePc = "panicked"
                THEN \* store_tx.send(..).await.unwrap()
                     /\ pc' = [pc EXCEPT ![c] = "panicked"]
                     /\ out' = [out EXCEPT ![c] = <<>>]
                     /\ UNCHANGED <<storeQ, pending, acked, expect, visible>>
                ELSE /\ storeQ' = Enqueue(storeQ, r.send)
                     /\ out' = [out EXCEPT ![c] =
                                  IF r.res = "Err" THEN r.out \o <<ErrorMessage(r.msg)>>
                                  ELSE r.out]
                     /\ pc' = [pc EXCEPT ![c] = AfterDispatch(r.res)]
                     /\ pending' = [pending EXCEPT ![c] = r.pend]
                     /\ acked' = AckedAfter(c, r.send)
                     /\ expect' = [expect EXCEPT ![c] =
                                     IF r.pend.handler = "get" /\ r.pend.key \in DOMAIN acked[c]
                                     THEN Some(acked[c][r.pend.key]) ELSE Absent]
                     /\ visible' = [visible EXCEPT ![c] =
                                      IF r.pend.handler = "get"
                                      THEN LastPlainWrite(SubmittedWrites, r.pend.key)
                                      ELSE Absent]
    /\ UNCHANGED <<followerVars, master, now, storePc, storeCur, data, clients, replicas, clientRx, replicaRx,
                   id, sock, closed, accepted, regAt, gone>>

\* One iteration of client_loop on a frame given as decoded.
ClientFrame(c, cmd_vec) == ClientDispatch(c, cmd_vec, <<>>)

\* A loop that goes on after a decode error.
KeepReading == "read"

\* The break of client_loop after a decode error: the task ends.
AfterDecodeError == "done"

\* read_command returned Err on the bytes w: the error is reported and the
\* loop is left.
ClientDecodeError(c, error, w) ==
    /\ pc[c] = "read"
    /\ cmdsLeft > 0
    /\ cmdsLeft' = cmdsLeft - 1
    /\ frame' = [conn |-> c, cmd |-> <<>>, wire |-> w, ev |-> "data"]
    /\ out' = [out EXCEPT ![c] = <<ErrorMessage(error)>>]
    /\ pc' = [pc EXCEPT ![c] = AfterDecodeError]
    /\ UNCHANGED <<replicaVars, now, storeQ, storePc, storeCur, data, clients, replicas, clientRx,
                   replicaRx, id, pending, sock, closed, accepted, regAt, acked, gone, expect>>

\* read_command returned Err.
ClientFrameError(c, error) == ClientDecodeError(c, error, <<>>)

\* read_command returned Ok(None), or panicked, on the bytes w: the loop
\* goes round again, or the task ends.
ClientNoFrame(c, res, w) ==
    /\ pc[c] = "read"
    /\ cmdsLeft > 0
    /\ cmdsLeft' = cmdsLeft - 1
    /\ frame' = [conn |-> c, cmd |-> <<>>, wire |-> w, ev |-> "data"]
    /\ pc' = [pc EXCEPT ![c] = IF res = "Panic" THEN "panicked" ELSE "read"]
    /\ out' = [out EXCEPT ![c] = <<>>]
    /\ UNCHANGED <<replicaVars, now, storeQ, storePc, storeCur, data, clients, replicas, clientRx,
                   replicaRx, id, pending, sock, closed, accepted, regAt, acked, gone, expect>>

\* One iteration of client_loop in which read_command returned cnt on the
\* bytes w.
ClientLoop(c, w, cnt) ==
    CASE cnt.res = "Some" -> ClientDispatch(c, cnt.payload, w)
      [] cnt.res = "Err"  -> ClientDecodeError(c, cnt.msg, w)
      [] OTHER            -> ClientNoFrame(c, cnt.res, w)

\* One iteration of client_loop on the bytes w that the peer has sent.
ClientRead(c, w) == ClientLoop(c, w, ReadCommand(w))

\* The peer of a connection in command mode closes it.
ClientPeerClose(c) ==
    /\ pc[c] \in {"read", "wait"}
    /\ c \notin closed
    /\ closed' = closed \cup {c}
    /\ UNCHANGED <<replicaVars, now, storeQ, storePc, storeCur, data, clients, replicas, clientRx,
                   replicaRx, pc, id, pending, out, sock, cmdsLeft, accepted, regAt,
                   acked, gone, frame, expect>>

\* One iteration of client_loop on a connection the peer has closed: w is
\* what the peer had sent of a frame, and every read past it returns 0 bytes.
ClientReadEof(c, w) == c \in closed /\ ClientRead(c, w)

\* What handle_get and handle_keys do with what self.rx.recv() returned:
\* recv is Some(message), or Absent when the channel is closed and empty.
OnReply(p, recv) ==
    CASE p.handler = "get" ->
            IF recv # Absent /\ recv[1].resp = "Get"
            THEN LET resp == recv[1].value
                 IN  IF resp = Absent THEN Ok(<<WriteNil>>)
                     ELSE CASE resp[1].t = "String"    -> Ok(<<WriteString(resp[1].s)>>)
                            [] resp[1].t = "Int"       -> Ok(<<WriteInteger(resp[1].n)>>)
                            [] resp[1].t = "Array"     -> Ok(<<WriteWrongtype>>)
                            [] resp[1].t = "Timestamp" -> [Ok(<<>>) EXCEPT !.res = "Panic"]
            ELSE Bail("internal error trying to get the value")
      [] p.handler = "keys" ->
            IF recv # Absent /\ recv[1].resp = "Keys"
            THEN Ok(WriteValue(recv[1].value))
            ELSE Bail("internal error obtaining the keys")
      [] p.handler = "keys_literal" ->
            LET acc == IF recv # Absent /\ recv[1].resp = "Get"
                          /\ recv[1].value # Absent
                       THEN <<RString(p.key)>> ELSE <<>>
            IN  Ok(WriteValue(RArray(acc)))

\* The rest of handle_get / handle_keys: self.rx.recv() has a message.
ClientReply(c) ==
    /\ pc[c] = "wait"
    /\ clientRx[c] # <<>>
    /\ LET r == OnReply(pending[c], Some(Head(clientRx[c])))
       IN  /\ out' = [out EXCEPT ![c] =
                        IF r.res = "Err" THEN <<ErrorMessage(r.msg)>> ELSE r.out]
           /\ pc' = [pc EXCEPT ![c] = AfterDispatch(r.res)]
    /\ clientRx' = [clientRx EXCEPT ![c] = Tail(@)]
    /\ pending' = [pending EXCEPT ![c] = NoRequest]
    /\ UNCHANGED <<replicaVars, now, storeQ, storePc, storeCur, data, clients, replicas, replicaRx,
                   id, sock, closed, cmdsLeft, accepted, regAt, acked, gone, frame, expect>>

\* self.rx.recv() returns None: the Store task has ended and dropped its senders.
ClientReplyClosed(c) ==
    /\ pc[c] \in {"wait", "wait_id"}
    /\ clientRx[c] = <<>>
    /\ storePc = "panicked"
    /\ IF pc[c] = "wait_id"
       THEN /\ pc' = [pc EXCEPT ![c] = "panicked"]
            /\ UNCHANGED out
       ELSE LET r == OnReply(pending[c], Absent)
            IN  /\ out' = [out EXCEPT ![c] =
                             IF r.res = "Err" THEN <<ErrorMessage(r.msg)>> ELSE r.out]
                /\ pc' = [pc EXCEPT ![c] = AfterDispatch(r.res)]
    /\ pending' = [pending EXCEPT ![c] = NoRequest]
    /\ UNCHANGED <<replicaVars, now, storeQ, storePc, storeCur, data, clients, replicas, clientRx,
                   replicaRx, id, sock, closed, cmdsLeft, accepted, regAt, acked, gone, frame, expect>>

\* handle_psync with its two effects exchanged: the reply before the registration.
FullresyncFirst == <<"Fullresync", "InitReplica">>

\* The two effects of handle_psync after the digest is known, in program order.
HandlePsyncSteps == <<"InitReplica", "Fullresync">>

PsyncStepNo(c) == IF pc[c] = "psync1" THEN 1 ELSE 2

\* client_replica_loop: handle_psync, one effect per step.
PsyncStep(c) ==
    /\ pc[c] \in {"psync1", "psync2"}
    /\ Len(storeQ) < CMD_BUFFER
    /\ LET step == HandlePsyncSteps[PsyncStepNo(c)]
           next == IF pc[c] = "psync1" THEN "psync2" ELSE "feed"
       IN  IF step = "InitReplica"
           THEN IF storePc = "panicked"
                THEN /\ pc' = [pc EXCEPT ![c] = "panicked"]
                     /\ UNCHANGED <<storeQ, out>>
                ELSE /\ storeQ' = Append(storeQ, InitReplicaCmd(c))
                     /\ pc' = [pc EXCEPT ![c] = next]
                     /\ UNCHANGED out
           ELSE /\ out' = [out EXCEPT ![c] =
                             @ \o <<FullresyncLine>> \o WriteBytes(EmptyRdbLen, EmptyRdb)]
                /\ pc' = [pc EXCEPT ![c] = next]
                /\ UNCHANGED storeQ
    /\ UNCHANGED <<replicaVars, now, storePc, storeCur, data, clients, replicas, clientRx, replicaRx,
                   id, pending, sock, closed, cmdsLeft, accepted, regAt, acked, gone, frame, expect>>

\* A receiver that hands out the newest buffer, where mpsc hands out the oldest.
NewestBuffer(q) == q[Len(q)]

\* The order in which the feeder takes buffers from replica_rx.
NextBuffer(q) == Head(q)
RestBuffers(q) == Tail(q)

\* client_replica_loop: one buffer received from the Store and written. The
\* socket is taken to accept the whole buffer in the one call of write that
\* the loop makes for it.
FeederForward(c) ==
    /\ pc[c] = "feed"
    /\ replicaRx[c] # <<>>
    /\ sock' = [sock EXCEPT ![c] = Append(@, NextBuffer(replicaRx[c]))]
    /\ replicaRx' = [replicaRx EXCEPT ![c] = RestBuffers(@)]
    /\ UNCHANGED <<replicaVars, now, storeQ, storePc, storeCur, data, clients, replicas, clientRx,
                   pc, id, pending, out, closed, cmdsLeft, accepted, regAt, acked, gone, frame, expect>>

\* client_replica_loop: the write fails on a socket the peer has closed, or
\* recv() returns None because the Store has ended: unwrap() panics.
FeederPanic(c) ==
    /\ pc[c] = "feed"
    /\ \/ c \in closed /\ replicaRx[c] # <<>>
       \/ storePc = "panicked" /\ replicaRx[c] = <<>>
    /\ pc' = [pc EXCEPT ![c] = "panicked"]
    /\ UNCHANGED <<replicaVars, now, storeQ, storePc, storeCur, data, clients, replicas, clientRx,
                   replicaRx, id, pending, out, sock, closed, cmdsLeft, accepted, regAt,
                   acked, gone, frame, expect>>

\* The replica at the other end of a feeder connection closes it.
PeerClose(c) ==
    /\ pc[c] = "feed"
    /\ c \notin closed
    /\ closed' = closed \cup {c}
    /\ UNCHANGED <<replicaVars, now, storeQ, storePc, storeCur, data, clients, replicas, clientRx,
                   replicaRx, pc, id, pending, out, sock, cmdsLeft, accepted, regAt,
                   acked, gone, frame, expect>>

-----------------------------------------------------------------------------
(* The Store actor (store.rs: store_loop, replicate) *)

\* The write a Set or SetEx asks for (from and seen are history).
AsWrite(cmd) ==
    [key |-> cmd.key, value |-> cmd.value,
     until |-> IF cmd.cmd = "SetEx" THEN Some(cmd.until) ELSE Absent,
     from |-> cmd.from, seen |-> cmd.seen]

\* storeCur while no write is being replicated.
NoWrite == [w |-> <<>>, bytes |-> <<>>, idx |-> 0]

\* An id taken after the push.
LenAfterPush(cl) == Len(cl) + 1

\* let id = clients.len(), taken before the push
NextClientId(cl) == Len(cl)

\* InitClient(tx)
StoreInitClient ==
    /\ storePc = "recv"
    /\ storeQ # <<>>
    /\ Head(storeQ).cmd = "InitClient"
    /\ LET tx == Head(storeQ).tx
           new_id == NextClientId(clients)
       IN  /\ clients' = Append(clients, tx)
           /\ IF TaskEnded(tx)
              THEN /\ storePc' = "panicked"
                   /\ UNCHANGED clientRx
              ELSE /\ Len(clientRx[tx]) < CLIENT_BUFFER
                   /\ clientRx' = [clientRx EXCEPT ![tx] = Append(@, ClientIdResp(new_id))]
                   /\ UNCHANGED storePc
    /\ storeQ' = Tail(storeQ)
    /\ UNCHANGED <<replicaVars, now, storeCur, data, replicas, replicaRx, pc, id, pending, out, sock,
                   closed, cmdsLeft, accepted, regAt, acked, gone, frame, expect>>

\* InitReplica(tx)
StoreInitReplica ==
    /\ storePc = "recv"
    /\ storeQ # <<>>
    /\ Head(storeQ).cmd = "InitReplica"
    /\ replicas' = Append(replicas, Head(storeQ).tx)
    /\ regAt' = [regAt EXCEPT ![Head(storeQ).tx] = Len(accepted)]
    /\ storeQ' = Tail(storeQ)
    /\ UNCHANGED <<replicaVars, now, storePc, storeCur, data, clients, clientRx, replicaRx, pc, id,
                   pending, out, sock, closed, cmdsLeft, accepted, acked, gone, frame, expect>>

\* Set and SetEx, up to the call of replicate: with no replica registered
\* the write is applied at once.
StoreSet ==
    /\ storePc = "recv"
    /\ storeQ # <<>>
    /\ Head(storeQ).cmd \in {"Set", "SetEx"}
    /\ LET w == AsWrite(Head(storeQ))
       IN  /\ accepted' = Append(accepted, w)
           /\ IF replicas # <<>> /\ w.value.t # "String"
              THEN \* panic!("SET accepted a value that is not a string!")
                   /\ storePc' = "panicked"
                   /\ UNCHANGED <<storeCur, data, gone>>
              ELSE IF replicas # <<>>
              THEN /\ storePc' = "replicate"
                   /\ storeCur' = [w |-> w, bytes |-> ToVec(WritePayload(w)), idx |-> 1]
                   /\ UNCHANGED <<data, gone>>
              ELSE /\ data' = StoreWrite(data, w.key, w.value, w.until)
                   /\ gone' = gone \ {w.key}
                   /\ UNCHANGED <<storePc, storeCur>>
    /\ storeQ' = Tail(storeQ)
    /\ UNCHANGED <<replicaVars, now, clients, replicas, clientRx, replicaRx, pc, id, pending, out,
                   sock, closed, cmdsLeft, regAt, acked, frame, expect>>

\* A loop that ends one replica short.
OneShort(idx, n) == idx >= n

\* replicate's loop is over once every replica of the slice has been sent to.
ReplicateDone(idx, n) == idx > n

\* A channel that takes every buffer.
Unbounded(q) == TRUE

\* Sender::send on the channel made by mpsc::channel(16): it completes when
\* the channel holds fewer than 16 buffers, and waits otherwise.
HasCapacity(q) == Len(q) < REPLICA_BUFFER

\* replicate: replica.send(as_vec.clone()).await.unwrap() for one replica,
\* and, after the last one, store.write.
StoreReplicate ==
    /\ storePc = "replicate"
    /\ LET r == replicas[storeCur.idx]
           w == storeCur.w
       IN  IF TaskEnded(r)
           THEN /\ storePc' = "panicked"
                /\ UNCHANGED <<storeCur, replicaRx, data, gone>>
           ELSE /\ HasCapacity(replicaRx[r])
                /\ replicaRx' = [replicaRx EXCEPT ![r] = Append(@, storeCur.bytes)]
                /\ IF ReplicateDone(storeCur.idx + 1, Len(replicas))
                   THEN /\ data' = StoreWrite(data, w.key, w.value, w.until)
                        /\ gone' = gone \ {w.key}
                        /\ storePc' = "recv"
                        /\ storeCur' = NoWrite
                   ELSE /\ storeCur' = [storeCur EXCEPT !.idx = @ + 1]
                        /\ UNCHANGED <<storePc, data, gone>>
    /\ UNCHANGED <<replicaVars, now, storeQ, clients, replicas, clientRx, pc, id, pending, out, sock,
                   closed, cmdsLeft, accepted, regAt, acked, frame, expect>>

\* A Store that answers every request on the first registered sink.
FirstSink(i) == clients[1]

\* The sink a reply to client id goes to: clients[id].
ReplySink(i) == clients[i + 1]

\* Get { id, key }
StoreGet ==
    /\ storePc = "recv"
    /\ storeQ # <<>>
    /\ Head(storeQ).cmd = "Get"
    /\ LET cmd == Head(storeQ)
           r == StoreRead(data, cmd.key, now)
           tx == ReplySink(cmd.id)
           live == /\ cmd.key \in DOMAIN data
                   /\ \/ data[cmd.key].kind = "Permanent"
                      \/ now < data[cmd.key].until
       IN  /\ data' = r.data
           /\ gone' = IF cmd.key \in DOMAIN data /\ r.value = Absent
                      THEN gone \cup {cmd.key} ELSE gone
           /\ IF TaskEnded(tx)
              THEN /\ storePc' = "panicked"
                   /\ UNCHANGED clientRx
              ELSE /\ Len(clientRx[tx]) < CLIENT_BUFFER
                   /\ clientRx' = [clientRx EXCEPT ![tx] = Append(@, GetResp(r.value, cmd, live))]
                   /\ UNCHANGED storePc
    /\ storeQ' = Tail(storeQ)
    /\ UNCHANGED <<replicaVars, now, storeCur, clients, replicas, replicaRx, pc, id, pending, out,
                   sock, closed, cmdsLeft, accepted, regAt, acked, frame, expect>>

\* AllKeys(id)
StoreAllKeys ==
    /\ storePc = "recv"
    /\ storeQ # <<>>
    /\ Head(storeQ).cmd = "AllKeys"
    /\ LET cmd == Head(storeQ)
           tx == ReplySink(cmd.id)
       IN  IF TaskEnded(tx)
           THEN /\ storePc' = "panicked"
                /\ UNCHANGED clientRx
           ELSE /\ Len(clientRx[tx]) < CLIENT_BUFFER
                /\ \E order \in KeyOrders(DOMAIN data) :
                      clientRx' = [clientRx EXCEPT
                                     ![tx] = Append(@, KeysResp(AllKeysArray(order), cmd))]
                /\ UNCHANGED storePc
    /\ storeQ' = Tail(storeQ)
    /\ UNCHANGED <<replicaVars, now, storeCur, data, clients, replicas, replicaRx, pc, id, pending,
                   out, sock, closed, cmdsLeft, accepted, regAt, acked, gone, frame, expect>>

\* ReplicaCount(id). No task of the program sends this command.
StoreReplicaCount ==
    /\ storePc = "recv"
    /\ storeQ # <<>>
    /\ Head(storeQ).cmd = "ReplicaCount"
    /\ LET cmd == Head(storeQ)
           tx == ReplySink(cmd.id)
       IN  IF TaskEnded(tx)
           THEN /\ storePc' = "panicked"
                /\ UNCHANGED clientRx
           ELSE /\ Len(clientRx[tx]) < CLIENT_BUFFER
                /\ clientRx' = [clientRx EXCEPT
                                 ![tx] = Append(@, ReplicaCountResp(Len(replicas), cmd))]
                /\ UNCHANGED storePc
    /\ storeQ' = Tail(storeQ)
    /\ UNCHANGED <<replicaVars, now, storeCur, data, clients, replicas, replicaRx, pc, id, pending,
                   out, sock, closed, cmdsLeft, accepted, regAt, acked, gone, frame, expect>>

\* Time passes.
Tick ==
    /\ now < MaxTime
    /\ now' = now + 1
    /\ UNCHANGED <<replicaVars, storeQ, storePc, storeCur, data, clients, replicas, clientRx,
                   replicaRx, pc, id, pending, out, sock, closed, cmdsLeft, accepted,
                   regAt, acked, gone, frame, expect>>

-----------------------------------------------------------------------------
(* replica.rs: the task that follows a master (replica_loop) *)

\* What a read on the master connection ends with: the bytes that arrived
\* (none: the master has closed), the timeout, or an error of the socket.
Arrived(w) == [ev |-> "data", w |-> w]
TimedOut == [ev |-> "timeout", w |-> <<>>]
ReadFailed == [ev |-> "error", w |-> <<>>]

PING == <<"P", "I", "N", "G">>
PSYNC == <<"P", "S", "Y", "N", "C">>
REPLCONF == <<"R", "E", "P", "L", "C", "O", "N", "F">>
ACK == <<"A", "C", "K">>
GETACK == <<"G", "E", "T", "A", "C", "K">>

\* config.get("port") of the process.
Port == <<"6", "3", "8", "0">>

\* RedisType::from(vec![..]): an array of strings.
FromVec(strs) == RArray([i \in 1..Len(strs) |-> RString(strs[i])])

\* The commands of the handshake.
PingCmd == FromVec(<<PING>>)
ListeningPortCmd ==
    FromVec(<<REPLCONF, <<"l", "i", "s", "t", "e", "n", "i", "n", "g", "-", "p", "o", "r", "t">>,
              Port>>)
CapaCmd == FromVec(<<REPLCONF, <<"c", "a", "p", "a">>, <<"p", "s", "y", "n", "c", "2">>>>)
PsyncCmd == FromVec(<<PSYNC, <<"?">>, <<"-", "1">>>>)

\* The lines the handshake waits for, as get_string returns them.
PongLine == <<"+", "P", "O", "N", "G">>
OkLine == <<"+", "O", "K">>
FullresyncPrefix == <<"+", "F", "U", "L", "L", "R", "E", "S", "Y", "N", "C">>

\* str::starts_with(&str)
StartsWithStr(s, prefix) ==
    /\ Len(s) >= Len(prefix)
    /\ SubSeq(s, 1, Len(prefix)) = prefix

\* handle_set as its callers call it, with a fourth argument (client.rs 95
\* passes true, replica.rs 143 passes false): the handler of common_cli_rep.rs,
\* which answers +OK only when reply is TRUE.
HandleSetReply(args, t, c, seen, reply) ==
    LET r == HandleSet(args, t, c, seen)
    IN  IF r.res = "Ok" /\ ~reply THEN [r EXCEPT !.out = <<>>] ELSE r

\* Replica::handle_set
ReplicaHandleSet(args, t, seen) == HandleSetReply(args, t, "master", seen, FALSE)

\* An acknowledgement that counts the frame being answered.
AckWithFrame(total, length) == total + length

\* The count Replica::handle_replconf acknowledges while the frame of length
\* bytes is dispatched: self.total_bytes, which replica_loop adds the frame's
\* length to after dispatch has returned.
AckCount(total, length) == total

\* Replica::handle_replconf, answering with the count n.
ReplicaHandleReplconf(args, n) ==
    IF Len(args) = 2
    THEN IF Str(ToAsciiLowercase(args[1])) = "getack"
         THEN IF args[2] = <<"*">>
              THEN Ok(WriteValue(FromVec(<<REPLCONF, ACK, Decimal(n)>>)))
              ELSE Bail("unsupported argument \"" \o Str(args[2]) \o "\" for REPLCONF GETACK")
         ELSE Bail("unsupported argument \"" \o Str(args[1]) \o "\" for REPLCONF")
    ELSE Bail("wrong number of arguments for 'replconf'")

\* A PING that is answered.
PingAnswered == Ok(<<WriteSimpleString("PONG")>>)

\* The "ping" arm of Replica::dispatch: Ok(()), nothing is written.
PingConsumed == Ok(<<>>)

\* Replica::dispatch on a non-empty command vector, at time t, with the
\* count n to acknowledge.
ReplicaDispatch(cmd_vec, t, n, seen) ==
    LET name == cmd_vec[1]
        args == Tail(cmd_vec)
        lower == Str(ToAsciiLowercase(name))
    IN  CASE lower = "set"      -> ReplicaHandleSet(args, t, seen)
          [] lower = "replconf" -> ReplicaHandleReplconf(args, n)
          [] lower = "ping"     -> PingConsumed
          [] OTHER ->
                Bail("Replica: unknown command '" \o Str(name)
                     \o "', with args beginning with: " \o QuotedArgs(args))

\* TcpStream::connect at the start of replica_loop, and the PING that
\* Replica::ping writes once connected.
ReplicaConnect(ok) ==
    /\ replicaPc = "connect"
    /\ replicaPc' = IF ok THEN "ping" ELSE "ended"
    /\ replicaOut' = IF ok THEN WriteValue(PingCmd) ELSE replicaOut
    /\ frame' = [conn |-> "master", cmd |-> <<>>, wire |-> <<>>, ev |-> "connect"]
    /\ UNCHANGED <<now, storeQ, storePc, storeCur, data, clients, replicas, clientRx,
                   replicaRx, pc, id, pending, out, sock, closed, cmdsLeft, accepted,
                   regAt, acked, gone, expect, total_bytes, ingested, config, updated, rdbFile, visible,
                   master>>

\* One wait of the handshake at position at, ended by r. A line that arrived
\* is the wanted one or an Err; onOther is what the code does with a timeout,
\* a read error or a closed connection: "fail" (an Err) or "skip" (it goes
\* on). Going on writes the chunks cmd; the task then stands at to after the
\* wanted line and at skipTo after a skip.
HandshakeWait(at, r, wanted, onOther, cmd, to, skipTo) ==
    /\ replicaPc = at
    /\ frame' = [conn |-> "master", cmd |-> <<>>, wire |-> r.w, ev |-> r.ev]
    /\ LET line == GetString(r.w)
           outcome ==
              CASE r.ev = "data" /\ line.res = "Panic" -> "panic"
                [] r.ev = "data" /\ line.res = "Some"  ->
                       IF wanted THEN "next" ELSE "fail"
                [] OTHER -> onOther
       IN  /\ replicaPc' = CASE outcome = "panic" -> "panicked"
                             [] outcome = "fail"  -> "ended"
                             [] outcome = "next"  -> to
                             [] outcome = "skip"  -> skipTo
           /\ replicaOut' = IF outcome \in {"next", "skip"}
                            THEN replicaOut \o cmd ELSE replicaOut
    /\ UNCHANGED <<now, storeQ, storePc, storeCur, data, clients, replicas, clientRx,
                   replicaRx, pc, id, pending, out, sock, closed, cmdsLeft, accepted,
                   regAt, acked, gone, expect, total_bytes, ingested, config, updated, rdbFile, visible,
                   master>>

\* A ping that goes on when no answer comes.
PingNoAnswerSkips == "skip"

\* Replica::ping on a timeout (timeout(..).await?), a read error or a closed
\* connection (the arm _): an Err.
PingNoAnswer == "fail"

\* Replica::ping, from the answer on: anything but +PONG in time is an Err,
\* and handshake bails.
ReplicaPing(r) ==
    HandshakeWait("ping", r, GetString(r.w).string = PongLine, PingNoAnswer,
                  WriteValue(ListeningPortCmd), "replconf1", "replconf1")

\* Replica::handshake_replconf, the answer to the first REPLCONF: a line
\* other than +OK is an Err; a timeout, a read error and a closed connection
\* are logged and the handshake goes on.
ReplicaReplconf1(r) ==
    HandshakeWait("replconf1", r, GetString(r.w).string = OkLine, "skip",
                  WriteValue(CapaCmd), "replconf2", "replconf2")

\* Replica::handshake_replconf, the answer to the second REPLCONF.
ReplicaReplconf2(r) ==
    HandshakeWait("replconf2", r, GetString(r.w).string = OkLine, "skip",
                  WriteValue(PsyncCmd), "psync", "psync")

\* Replica::handshake_psync on a timeout, a read error or a closed
\* connection: the arm logs, the function returns Ok(()).
PsyncNoAnswer == "skip"

\* Replica::handshake_psync, the answer to PSYNC: a line beginning
\* +FULLRESYNC leads to the read of the snapshot; another line is an Err.
ReplicaPsync(r) ==
    HandshakeWait("psync", r, StartsWithStr(GetString(r.w).string, FullresyncPrefix),
                  PsyncNoAnswer, <<>>, "snapshot", "stream")

\* Replica::handshake_psync, read_bulk_bytes(..).await? on the bytes w: an
\* Err ends the handshake, Ok(Some) and Ok(None) end it well.
ReplicaSnapshot(w) ==
    /\ replicaPc = "snapshot"
    /\ frame' = [conn |-> "master", cmd |-> <<>>, wire |-> w, ev |-> "data"]
    /\ LET rdb == ReadBulkBytes(w)
       IN  replicaPc' = CASE rdb.res = "Err"   -> "ended"
                          [] rdb.res = "Panic" -> "panicked"
                          [] OTHER             -> "stream"
    /\ UNCHANGED <<now, storeQ, storePc, storeCur, data, clients, replicas, clientRx,
                   replicaRx, pc, id, pending, out, sock, closed, cmdsLeft, accepted,
                   regAt, acked, gone, expect, replicaOut, total_bytes, ingested, config, updated, rdbFile, visible,
                   master>>

\* The loop of replica_loop after Ok(None) and after Err: the arms do not
\* break, the next read follows.
AfterNoCommand == "stream"

\* The loop of replica_loop once dispatch has returned r for the command
\* cnt decoded from the bytes w: the result is dropped (let _ =), the
\* command's length is added to total_bytes.
ReplicaDispatched(w, cnt, r) ==
    IF r.send # <<>> /\ storePc = "panicked"
    THEN \* store_tx.send(..).await.unwrap()
         /\ replicaPc' = "panicked"
         /\ UNCHANGED <<storeQ, replicaOut, total_bytes, ingested>>
    ELSE /\ storeQ' = storeQ \o r.send
         /\ replicaOut' = replicaOut \o r.out
         /\ total_bytes' = total_bytes + cnt.length
         /\ ingested' = Append(ingested, Len(w) - Len(cnt.rest))
         /\ replicaPc' = "stream"

\* One iteration of the loop of replica_loop in which read_command returned
\* cnt on the bytes w.
ReplicaLoop(w, cnt) ==
    /\ replicaPc = "stream"
    /\ cmdsLeft > 0
    /\ Len(storeQ) < CMD_BUFFER
    /\ cmdsLeft' = cmdsLeft - 1
    /\ frame' = [conn |-> "master", wire |-> w, ev |-> "data",
                 cmd |-> IF cnt.res = "Some" THEN cnt.payload ELSE <<>>]
    /\ IF cnt.res = "Some"
       THEN IF cnt.payload = <<>>
            THEN \* cmd_vec[0] is out of bounds
                 /\ replicaPc' = "panicked"
                 /\ UNCHANGED <<storeQ, replicaOut, total_bytes, ingested>>
            ELSE ReplicaDispatched(w, cnt,
                     ReplicaDispatch(cnt.payload, now, AckCount(total_bytes, cnt.length),
                                     SentFullresync))
       ELSE /\ replicaPc' = IF cnt.res = "Panic" THEN "panicked" ELSE AfterNoCommand
            /\ UNCHANGED <<storeQ, replicaOut, total_bytes, ingested>>
    /\ UNCHANGED <<now, storePc, storeCur, data, clients, replicas, clientRx,
                   replicaRx, pc, id, pending, out, sock, closed, accepted,
                   regAt, acked, gone, expect, config, updated, rdbFile, visible>>

\* One iteration of the loop of replica_loop on the bytes w that arrived
\* from the master (none: the master has closed).
ReplicaRead(w) == ReplicaLoop(w, ReadCommand(w)) /\ UNCHANGED master

\* The master's side of the link, as store_loop and the feeder of this
\* program run it for an attached replica: the master's Store accepts the
\* write w, fans out its frame, which the feeder writes to the socket, and
\* applies the write to its map.
MasterAccepts(w) ==
    /\ replicaPc = "stream"
    /\ Len(master.link) < MaxLink
    /\ master' = [data |-> StoreWrite(master.data, w.key, w.value, w.until),
                  link |-> Append(master.link, ToVec(WritePayload(w)))]
    /\ UNCHANGED <<followerVars, visible, now, storeQ, storePc, storeCur, data, clients,
                   replicas, clientRx, replicaRx, pc, id, pending, out, sock, closed,
                   cmdsLeft, accepted, regAt, acked, gone, frame, expect>>

\* One iteration of the loop of replica_loop on the next frame the master
\* has written.
ReplicaReadsLink ==
    /\ master.link # <<>>
    /\ ReplicaLoop(Head(master.link), ReadCommand(Head(master.link)))
    /\ master' = [master EXCEPT !.link = Tail(@)]

-----------------------------------------------------------------------------
(* The frames the peers send *)

SET == <<"S", "E", "T">>
GET == <<"G", "E", "T">>
KEYS == <<"K", "E", "Y", "S">>
PX == <<"P", "X">>

SetA1 == <<SET, <<"a">>, <<"1">>>>
SetA2 == <<SET, <<"a">>, <<"2">>>>
SetBPx == <<<<"s", "e", "t">>, <<"b">>, <<"1">>, <<"p", "x">>, <<"1">>>>
GetA == <<GET, <<"a">>>>
GetB == <<<<"g", "e", "t">>, <<"b">>>>
KeysAll == <<KEYS, <<"*">>>>
KeysB == <<KEYS, <<"b">>>>
KeysPattern == <<KEYS, <<"a", "*">>>>
Psync == <<<<"P", "S", "Y", "N", "C">>, <<"?">>, <<"-", "1">>>>

\* PSYNC frames whose arguments are not ? -1.
BadPsyncs ==
    { <<PSYNC, <<"?">>, <<"0">>>>,
      <<PSYNC, <<"x">>, <<"-", "1">>>>,
      <<PSYNC>> }

\* Frames that fail in their handler.
BadFrames ==
    { <<SET, <<"a">>>>,
      <<SET, <<"a">>, <<"1">>, <<"E", "X">>, <<"1">>>>,
      <<SET, <<"a">>, <<"1">>, PX, <<"x">>>>,
      <<GET>>,
      <<<<"F", "O", "O">>, <<"a">>, <<"b">>>>,
      <<<<"C", "O", "N", "F", "I", "G">>, <<"F", "O", "O">>>>,
      <<<<"H", "E", "L", "L", "O">>, <<"3">>>> }

Frames ==
    {SetA1, SetA2, SetBPx, GetA, GetB, KeysAll, KeysB, KeysPattern, Psync}
    \cup BadFrames

\* The bytes of a command frame as a peer sends it: an array of bulk strings.
Wire(f) == ToVec(RArray([i \in 1..Len(f) |-> RString(f[i])]))

\* Frames whose framing is wrong: a bulk header that is an integer line, an
\* empty bulk header, a bulk length and a multibulk length that are no numbers.
BadBulkHeader == <<"*", "1">> \o CRLF \o <<":", "3">> \o CRLF
EmptyBulkHeader == <<"*", "1">> \o CRLF \o CRLF
BadBulkLength == <<"*", "1">> \o CRLF \o <<"$", "x">> \o CRLF
BadMultibulkLength == <<"*", "x">> \o CRLF

BadWires == {BadBulkHeader, EmptyBulkHeader, BadBulkLength, BadMultibulkLength}

FrameErrors ==
    { "Protocol error: expected '$', got ':'",
      "Protocol error: invalid bulk length",
      "Protocol error: invalid multibulk length" }

-----------------------------------------------------------------------------
(* The specification *)

Init ==
    /\ now = 0
    /\ storeQ = <<>>
    /\ storePc = "recv"
    /\ storeCur = NoWrite
    /\ data = EmptyMap
    /\ clients = <<>>
    /\ replicas = <<>>
    /\ clientRx = [c \in Conns |-> <<>>]
    /\ replicaRx = [c \in Conns |-> <<>>]
    /\ pc = [c \in Conns |-> "start"]
    /\ id = [c \in Conns |-> NoId]
    /\ pending = [c \in Conns |-> NoRequest]
    /\ out = [c \in Conns |-> <<>>]
    /\ sock = [c \in Conns |-> <<>>]
    /\ closed = {}
    /\ cmdsLeft = MaxCmds
    /\ accepted = <<>>
    /\ regAt = [c \in Conns |-> NoId]
    /\ acked = [c \in Conns |-> EmptyMap]
    /\ gone = {}
    /\ frame = NoFrame
    /\ expect = [c \in Conns |-> Absent]
    /\ visible = [c \in Conns |-> Absent]
    /\ master = NoMaster
    /\ replicaPc = "off"
    /\ replicaOut = <<>>
    /\ total_bytes = 0
    /\ ingested = <<>>
    /\ config = ConfigurationDefault
    /\ updated = NoCall
    /\ rdbFile = <<>>

StoreStep ==
    \/ StoreInitClient
    \/ StoreInitReplica
    \/ StoreSet
    \/ StoreReplicate
    \/ StoreGet
    \/ StoreAllKeys
    \/ StoreReplicaCount

Next ==
    \/ StoreStep
    \/ Tick
    \/ \E c \in Conns : ClientInit(c)
    \/ \E c \in Conns : ClientRecvId(c)
    \/ \E c \in Conns, f \in Frames : ClientFrame(c, f)
    \/ \E c \in Conns, e \in FrameErrors : ClientFrameError(c, e)
    \/ \E c \in Conns : ClientReply(c)
    \/ \E c \in Conns : ClientReplyClosed(c)
    \/ \E c \in Conns : PsyncStep(c)
    \/ \E c \in Conns : FeederForward(c)
    \/ \E c \in Conns : FeederPanic(c)
    \/ \E c \in Conns : PeerClose(c)

Spec == Init /\ [][Next]_vars

-----------------------------------------------------------------------------
(* Scenarios: the same actions, from a state in which the three connections *)
(* have registered in the order c1, c2, c3, each with its own frames.       *)

RegOrder == <<"c1", "c2", "c3">>

\* The three connections registered at time t over a Store that holds d.
RegisteredAt(t, d) ==
    /\ now = t
    /\ storeQ = <<>>
    /\ storePc = "recv"
    /\ storeCur = NoWrite
    /\ data = d
    /\ clients = RegOrder
    /\ replicas = <<>>
    /\ clientRx = [c \in Conns |-> <<>>]
    /\ replicaRx = [c \in Conns |-> <<>>]
    /\ pc = [c \in Conns |-> "read"]
    /\ id = [c \in Conns |-> (CHOOSE i \in 1..Len(RegOrder) : RegOrder[i] = c) - 1]
    /\ pending = [c \in Conns |-> NoRequest]
    /\ out = [c \in Conns |-> <<>>]
    /\ sock = [c \in Conns |-> <<>>]
    /\ closed = {}
    /\ cmdsLeft = MaxCmds
    /\ accepted = <<>>
    /\ regAt = [c \in Conns |-> NoId]
    /\ acked = [c \in Conns |-> EmptyMap]
    /\ gone = {}
    /\ frame = NoFrame
    /\ expect = [c \in Conns |-> Absent]
    /\ visible = [c \in Conns |-> Absent]
    /\ master = NoMaster

Registered == RegisteredAt(0, EmptyMap)

InitRegistered ==
    /\ Registered
    /\ replicaPc = "off"
    /\ replicaOut = <<>>
    /\ total_bytes = 0
    /\ ingested = <<>>
    /\ config = ConfigurationDefault
    /\ updated = NoCall
    /\ rdbFile = <<>>

\* A process started with replicaof: replica_loop is spawned and has yet to
\* connect; its listener has accepted three connections.
InitReplicaOf ==
    /\ Registered
    /\ replicaPc = "connect"
    /\ replicaOut = <<>>
    /\ total_bytes = 0
    /\ ingested = <<>>
    /\ config = ConfigurationReplicaOf
    /\ updated = NoCall
    /\ rdbFile = <<>>

\* The process with replicaof once its handshake is through: the four
\* commands are written and the task stands in its ingest loop.
InitStreaming ==
    /\ Registered
    /\ replicaPc = "stream"
    /\ replicaOut = WriteValue(PingCmd) \o WriteValue(ListeningPortCmd)
                     \o WriteValue(CapaCmd) \o WriteValue(PsyncCmd)
    /\ total_bytes = 0
    /\ ingested = <<>>
    /\ config = ConfigurationReplicaOf
    /\ updated = NoCall
    /\ rdbFile = <<>>

\* Registration: connections arrive, register, and are closed or promoted.
NextReg ==
    \/ StoreInitClient
    \/ StoreInitReplica
    \/ StoreGet
    \/ \E c \in Conns : ClientInit(c)
    \/ \E c \in Conns : ClientRecvId(c)
    \/ \E c \in Conns, f \in {GetA, Psync} : ClientFrame(c, f)
    \/ \E c \in Conns : ClientFrameError(c, "Protocol error: invalid multibulk length")
    \/ \E c \in Conns : ClientReply(c)
    \/ \E c \in Conns : PsyncStep(c)

SpecReg == Init /\ [][NextReg]_vars

\* Replication: c1 writes with PX and c2 without, c2 and c3 may attach as
\* replicas, and the replica behind c3 may close its connection. Time stands
\* still.
NextRepl ==
    \/ StoreInitReplica
    \/ StoreSet
    \/ StoreReplicate
    \/ ClientFrame("c1", SetBPx)
    \/ ClientFrame("c2", SetA2)
    \/ \E c \in {"c2", "c3"} : ClientFrame(c, Psync)
    \/ \E c \in {"c2", "c3"} : PsyncStep(c)
    \/ \E c \in {"c2", "c3"} : FeederForward(c)
    \/ FeederPanic("c3")
    \/ PeerClose("c3")

SpecRepl == InitRegistered /\ [][NextRepl]_vars

\* Reads and writes of two clients.
NextKV ==
    \/ StoreSet
    \/ StoreGet
    \/ StoreAllKeys
    \/ \E c \in {"c1", "c2"}, f \in {SetA1, SetA2, GetA, KeysAll} : ClientFrame(c, f)
    \/ \E c \in {"c1", "c2"} : ClientReply(c)

SpecKV == InitRegistered /\ [][NextKV]_vars

\* Expiry and KEYS, with a replica attached whose feeder has yet to run.
NextExp ==
    \/ StoreInitReplica
    \/ StoreSet
    \/ StoreReplicate
    \/ StoreGet
    \/ StoreAllKeys
    \/ Tick
    \/ \E f \in {SetA1, SetBPx, GetB, KeysAll, KeysB, KeysPattern} : ClientFrame("c1", f)
    \/ ClientFrame("c3", Psync)
    \/ ClientReply("c1")
    \/ PsyncStep("c3")

SpecExp == InitRegistered /\ [][NextExp]_vars

\* A SET whose deadline is the time of the SET itself.
SetBPx0 == <<SET, <<"b">>, <<"1">>, PX, <<"0">>>>

\* KEYS * and GET of a key whose deadline lies behind.
NextKeys ==
    \/ StoreSet
    \/ StoreGet
    \/ StoreAllKeys
    \/ Tick
    \/ \E f \in {SetA1, SetBPx0, GetB, KeysAll} : ClientFrame("c1", f)
    \/ ClientReply("c1")

SpecKeys == InitRegistered /\ [][NextKeys]_vars

SetB2 == <<SET, <<"b">>, <<"2">>>>

\* SET with and without PX of the same key, and GET of it as time passes,
\* with and without a replica attached.
NextPerm ==
    \/ StoreInitReplica
    \/ StoreSet
    \/ StoreReplicate
    \/ StoreGet
    \/ Tick
    \/ \E f \in {SetA1, SetBPx, SetB2, GetB} : ClientFrame("c1", f)
    \/ ClientFrame("c3", Psync)
    \/ ClientReply("c1")
    \/ PsyncStep("c3")

SpecPerm == InitRegistered /\ [][NextPerm]_vars

\* Frames that fail, among frames that succeed.
NextErr ==
    \/ StoreInitReplica
    \/ StoreSet
    \/ StoreReplicate
    \/ StoreGet
    \/ \E f \in BadFrames \cup {SetA1, GetA} : ClientFrame("c1", f)
    \/ ClientFrame("c3", Psync)
    \/ ClientReply("c1")
    \/ PsyncStep("c3")
    \/ FeederForward("c3")

SpecErr == InitRegistered /\ [][NextErr]_vars

\* Framing: two clients send the bytes of frames, well framed or not.
NextProto ==
    \/ StoreSet
    \/ StoreGet
    \/ \E c \in {"c1", "c2"}, w \in BadWires \cup {Wire(SetA1), Wire(GetA)} : ClientRead(c, w)
    \/ \E c \in {"c1", "c2"} : ClientReply(c)

SpecProto == InitRegistered /\ [][NextProto]_vars

\* Frames with an empty payload: the multi-bulk *0 and a blank inline line.
EmptyMultibulk == <<"*", "0">> \o CRLF
BlankLine == CRLF

\* An inline PING.
InlinePing == PING \o CRLF

\* Empty frames among frames with a command.
NextEmpty ==
    \/ StoreSet
    \/ StoreGet
    \/ \E c \in {"c1", "c2"},
          w \in {EmptyMultibulk, BlankLine, InlinePing, Wire(SetA1), Wire(GetA)} :
            ClientRead(c, w)
    \/ \E c \in {"c1", "c2"} : ClientReply(c)

SpecEmpty == InitRegistered /\ [][NextEmpty]_vars

\* PSYNC: c2 asks with arguments right and wrong, c3 is promoted, c1 writes.
NextPsync ==
    \/ StoreInitReplica
    \/ StoreSet
    \/ StoreReplicate
    \/ ClientFrame("c1", SetA1)
    \/ \E f \in BadPsyncs \cup {Psync} : ClientFrame("c2", f)
    \/ ClientFrame("c3", Psync)
    \/ \E c \in {"c2", "c3"} : PsyncStep(c)
    \/ \E c \in {"c2", "c3"} : FeederForward(c)

SpecPsync == InitRegistered /\ [][NextPsync]_vars

\* The buffers that wait in a feeder's channel when the backlog scenario
\* starts: one short of the channel's capacity.
Backlog == REPLICA_BUFFER - 1

\* The write SET a 1 of c1, sent after c3 was promoted.
BacklogWrite == AsWrite(SetCmd(<<"a">>, RString(<<"1">>), "c1", {"c3"}))

\* The keys update is called with: the six it accepts, one it does not
\* know and one that differs from a known key in case only.
UpdateKeys == ACCEPTABLE_KEYS \cup {"maxmemory", "PORT"}
UpdateValues == {"1", "2"}

\* The pair lists bulk_update is called with (parse_arguments makes one pair
\* of each --key value).
BulkPairs ==
    { <<>>,
      <<<<"port", "1">>, <<"dir", "2">>>>,
      <<<<"port", "1">>, <<"port", "2">>>>,
      <<<<"maxmemory", "1">>>>,
      <<<<"replicaof", "1">>, <<"maxmemory", "1">>, <<"dir", "2">>>> }

\* A configuration as new() or default() makes it.
InitConfig ==
    /\ Registered
    /\ replicaPc = "off"
    /\ replicaOut = <<>>
    /\ total_bytes = 0
    /\ ingested = <<>>
    /\ config \in {ConfigurationNew, ConfigurationDefault}
    /\ updated = NoCall
    /\ rdbFile = <<>>

\* One call of Configuration::update.
UpdateCall(key, value) ==
    /\ LET r == ConfigUpdate(config, key, value)
       IN  /\ config' = r.cfg
           /\ updated' = [call |-> "update", pairs |-> <<<<key, value>>>>,
                          before |-> config, ok |-> r.ok, current |-> r.current]
    /\ UNCHANGED <<now, storeQ, storePc, storeCur, data, clients, replicas, clientRx,
                   replicaRx, pc, id, pending, out, sock, closed, cmdsLeft, accepted,
                   regAt, acked, gone, frame, expect, replicaPc, replicaOut,
                   total_bytes, ingested, rdbFile, visible,
                   master>>

\* One call of Configuration::bulk_update.
BulkUpdateCall(pairs) ==
    /\ LET r == ConfigBulkUpdate(config, pairs)
       IN  /\ config' = r.cfg
           /\ updated' = [call |-> "bulk_update", pairs |-> pairs,
                          before |-> config, ok |-> r.ok, current |-> Absent]
    /\ UNCHANGED <<now, storeQ, storePc, storeCur, data, clients, replicas, clientRx,
                   replicaRx, pc, id, pending, out, sock, closed, cmdsLeft, accepted,
                   regAt, acked, gone, frame, expect, replicaPc, replicaOut,
                   total_bytes, ingested, rdbFile, visible,
                   master>>

\* The configuration while it is built, before config_loop takes it.
NextConfig ==
    \/ \E key \in UpdateKeys, value \in UpdateValues : UpdateCall(key, value)
    \/ \E pairs \in BulkPairs : BulkUpdateCall(pairs)

SpecConfig == InitConfig /\ [][NextConfig]_vars

\* Snapshot files: the entry a -> 1 without expiry, the entry b -> 1 with a
\* deadline in milliseconds (0xFC) or in seconds (0xFD), both entries, and no
\* entry. Each file ends with 0xFF.
EntryA == <<0, 1, 97, 1, 49>>
EntryB == <<0, 1, 98, 1, 49>>
MillisB(ms) == <<252, ms, 0, 0, 0, 0, 0, 0, 0>> \o EntryB
SecsB(secs) == <<253, secs, 0, 0, 0>> \o EntryB

RdbFiles ==
    {<<255>>, EntryA \o <<255>>}
    \cup {MillisB(ms) \o <<255>> : ms \in 0..MaxTime + 1}
    \cup {EntryA \o MillisB(ms) \o <<255>> : ms \in 0..MaxTime + 1}
    \cup {SecsB(secs) \o EntryA \o <<255>> : secs \in 0..1}

\* A fresh server: the Store holds what the file gave it, at any time of
\* the clock, and the connections have registered.
InitRdb ==
    /\ rdbFile \in RdbFiles
    /\ \E t \in 0..MaxTime : RegisteredAt(t, LoadRdb(EmptyMap, rdbFile).data)
    /\ replicaPc = "off"
    /\ replicaOut = <<>>
    /\ total_bytes = 0
    /\ ingested = <<>>
    /\ config = ConfigurationDefault
    /\ updated = NoCall

\* GET and KEYS on what the file held, while time passes.
NextRdb ==
    \/ StoreGet
    \/ StoreAllKeys
    \/ Tick
    \/ \E c \in {"c1", "c2"}, f \in {GetA, GetB, KeysAll} : ClientFrame(c, f)
    \/ \E c \in {"c1", "c2"} : ClientReply(c)

SpecRdb == InitRdb /\ [][NextRdb]_vars

\* An entry of a whose value is the 8-bit integer 7 of special encoding 0.
EntryInt == <<0, 1, 97, 192, 7>>

\* A process started with a snapshot file and with replicaof, once its
\* handshake is through.
InitTypes ==
    /\ rdbFile \in {<<255>>, EntryA \o <<255>>, EntryInt \o <<255>>}
    /\ RegisteredAt(0, LoadRdb(EmptyMap, rdbFile).data)
    /\ replicaPc = "stream"
    /\ replicaOut = WriteValue(PingCmd) \o WriteValue(ListeningPortCmd)
                     \o WriteValue(CapaCmd) \o WriteValue(PsyncCmd)
    /\ total_bytes = 0
    /\ ingested = <<>>
    /\ config = ConfigurationReplicaOf
    /\ updated = NoCall

\* Every source of values: the file, SET of a client with and without PX,
\* SET from the master, with a replica of the process's own attached or not,
\* and the GETs that read them.
NextTypes ==
    \/ StoreInitReplica
    \/ StoreSet
    \/ StoreReplicate
    \/ StoreGet
    \/ ReplicaRead(Wire(SetA2))
    \/ \E f \in {SetBPx, GetA, GetB} : ClientFrame("c1", f)
    \/ ClientReply("c1")
    \/ ClientFrame("c3", Psync)
    \/ PsyncStep("c3")

SpecTypes == InitTypes /\ [][NextTypes]_vars

\* The entry of a whose value has the special encoding code, followed by bytes.
SpecialEntry(code, bytes) == <<0, 1, 97, 192 + code>> \o bytes

\* The bytes of integers of one, two and four bytes.
SpecialBytes ==
    [c \in 0..2 |->
        CASE c = 0 -> {<<7>>, <<255>>}
          [] c = 1 -> {<<1, 0>>, <<0, 1>>, <<255, 255>>, <<254, 255>>}
          [] c = 2 -> {<<1, 0, 0, 0>>, <<0, 0, 0, 1>>, <<2, 1, 0, 0>>}]

\* Snapshot files with an integer-encoded value.
IntFiles == UNION {{SpecialEntry(c, b) \o <<255>> : b \in SpecialBytes[c]} : c \in 0..2}

\* A server started with one of these files.
InitInts ==
    /\ rdbFile \in IntFiles
    /\ RegisteredAt(0, LoadRdb(EmptyMap, rdbFile).data)
    /\ replicaPc = "off"
    /\ replicaOut = <<>>
    /\ total_bytes = 0
    /\ ingested = <<>>
    /\ config = ConfigurationDefault
    /\ updated = NoCall

\* GET of the key the file held.
NextInts ==
    \/ StoreGet
    \/ \E c \in {"c1", "c2"} : ClientFrame(c, GetA)
    \/ \E c \in {"c1", "c2"} : ClientReply(c)

SpecInts == InitInts /\ [][NextInts]_vars

\* What a peer has sent of a frame when it closes: nothing, the * line, the
\* * line and one whole string of two, the $ header, the $ header and a part
\* of the payload, and a line without its end.
EofWires ==
    { <<>>,
      <<"*", "1">> \o CRLF,
      <<"*", "2">> \o CRLF \o <<"$", "3">> \o CRLF \o <<"G", "E", "T">> \o CRLF,
      <<"*", "1">> \o CRLF \o <<"$", "4">> \o CRLF,
      <<"*", "1">> \o CRLF \o <<"$", "4">> \o CRLF \o <<"P", "I">>,
      <<"*">> }

\* Clients read and write, and their peers close.
NextClose ==
    \/ StoreSet
    \/ StoreGet
    \/ \E c \in {"c1", "c2"}, f \in {SetA1, GetA} : c \notin closed /\ ClientFrame(c, f)
    \/ \E c \in {"c1", "c2"} : ClientReply(c)
    \/ \E c \in {"c1", "c2"} : ClientPeerClose(c)
    \/ \E c \in {"c1", "c2"}, w \in EofWires : ClientReadEof(c, w)

SpecClose == InitRegistered /\ [][NextClose]_vars

\* INFO frames: no section, the one known section in two spellings, names
\* info_on does not know, and both kinds together.
INFO == <<"I", "N", "F", "O">>
REPLICATION == <<"r", "e", "p", "l", "i", "c", "a", "t", "i", "o", "n">>
InfoAll == <<INFO>>
InfoReplication == <<INFO, REPLICATION>>
InfoReplicationCaps == <<<<"i", "n", "f", "o">>, <<"R", "E", "P", "L", "I", "C", "A", "T", "I", "O", "N">>>>
InfoTwice == <<INFO, REPLICATION, <<"R", "e", "p", "l", "i", "c", "a", "t", "i", "o", "n">>>>
InfoServer == <<INFO, <<"s", "e", "r", "v", "e", "r">>>>
InfoUnknowns == <<INFO, <<"s", "e", "r", "v", "e", "r">>, <<"c", "p", "u">>>>
InfoKnownUnknown == <<INFO, REPLICATION, <<"s", "e", "r", "v", "e", "r">>>>
InfoUnknownKnown == <<INFO, <<"c", "p", "u">>, REPLICATION>>

InfoFrames ==
    {InfoAll, InfoReplication, InfoReplicationCaps, InfoTwice, InfoServer,
     InfoUnknowns, InfoKnownUnknown, InfoUnknownKnown}

\* A master, or a replica that has finished its handshake.
InitInfo == InitRegistered \/ InitStreaming

\* INFO on c1 while c2 writes, c3 attaches as a replica and is fed, and, in a
\* process with replicaof, while the writes of its master arrive.
NextInfo ==
    \/ StoreInitReplica
    \/ StoreSet
    \/ StoreReplicate
    \/ \E f \in InfoFrames : ClientFrame("c1", f)
    \/ ClientFrame("c2", SetA1)
    \/ ClientFrame("c3", Psync)
    \/ PsyncStep("c3")
    \/ FeederForward("c3")
    \/ ReplicaRead(Wire(SetA2))

SpecInfo == InitInfo /\ [][NextInfo]_vars

\* The state after c3 was promoted to feeder and c1 then had Backlog writes
\* SET a 1 accepted, none of which the feeder has written to its socket yet.
InitBacklog ==
    /\ now = 0
    /\ storeQ = <<>>
    /\ storePc = "recv"
    /\ storeCur = NoWrite
    /\ data = StoreWrite(EmptyMap, BacklogWrite.key, BacklogWrite.value, Absent)
    /\ clients = RegOrder
    /\ replicas = <<"c3">>
    /\ clientRx = [c \in Conns |-> <<>>]
    /\ replicaRx = [c \in Conns |->
                      IF c = "c3" THEN [i \in 1..Backlog |-> ToVec(WritePayload(BacklogWrite))]
                      ELSE <<>>]
    /\ pc = [c \in Conns |-> IF c = "c3" THEN "feed" ELSE "read"]
    /\ id = [c \in Conns |-> (CHOOSE i \in 1..Len(RegOrder) : RegOrder[i] = c) - 1]
    /\ pending = [c \in Conns |-> NoRequest]
    /\ out = [c \in Conns |->
                IF c = "c3" THEN <<FullresyncLine>> \o WriteBytes(EmptyRdbLen, EmptyRdb)
                ELSE IF c = "c1" THEN <<WriteOk>> ELSE <<>>]
    /\ sock = [c \in Conns |-> <<>>]
    /\ closed = {}
    /\ cmdsLeft = MaxCmds
    /\ accepted = [i \in 1..Backlog |-> BacklogWrite]
    /\ regAt = [c \in Conns |-> IF c = "c3" THEN 0 ELSE NoId]
    /\ acked = [c \in Conns |->
                  IF c = "c1" THEN [k \in {BacklogWrite.key} |-> BacklogWrite.value]
                  ELSE EmptyMap]
    /\ gone = {}
    /\ frame = [conn |-> "c1", cmd |-> SetA1, wire |-> <<>>, ev |-> "data"]
    /\ expect = [c \in Conns |-> Absent]
    /\ visible = [c \in Conns |-> Absent]
    /\ master = NoMaster
    /\ replicaPc = "off"
    /\ replicaOut = <<>>
    /\ total_bytes = 0
    /\ ingested = <<>>
    /\ config = ConfigurationDefault
    /\ updated = NoCall
    /\ rdbFile = <<>>

\* Backpressure: two clients write and read while the feeder drains at its
\* own pace.
NextBacklog ==
    \/ StoreSet
    \/ StoreReplicate
    \/ StoreGet
    \/ ClientFrame("c1", SetA1)
    \/ \E f \in {SetA2, GetA} : ClientFrame("c2", f)
    \/ ClientReply("c2")
    \/ FeederForward("c3")

SpecBacklog == InitBacklog /\ [][NextBacklog]_vars

\* A replica that has stopped reading: the feeder of c3 stands in a write to
\* its socket that does not return, so it takes nothing more from its
\* channel. The Store and the clients' receipt of replies are scheduled
\* fairly.
NextStall ==
    \/ StoreSet
    \/ StoreReplicate
    \/ StoreGet
    \/ StoreAllKeys
    \/ ClientFrame("c1", SetA1)
    \/ \E f \in {SetA2, GetA, KeysAll} : ClientFrame("c2", f)
    \/ \E c \in {"c1", "c2"} : ClientReply(c)

SpecStall ==
    /\ InitBacklog
    /\ [][NextStall]_vars
    /\ WF_vars(StoreSet \/ StoreReplicate \/ StoreGet \/ StoreAllKeys)
    /\ \A c \in {"c1", "c2"} : WF_vars(ClientReply(c))

\* What the master may answer a step of the handshake with.
Line(l) == Arrived(l \o CRLF)
Answers ==
    { Line(PongLine), Line(OkLine), Line(FullresyncPrefix \o <<" ", "i", "d", " ", "0">>),
      Line(<<"-", "E", "R", "R">>), Arrived(<<>>), TimedOut, ReadFailed }

\* What follows +FULLRESYNC: a whole snapshot, a snapshot cut short, nothing.
Snapshots ==
    { <<"$", "3">> \o CRLF \o <<"r", "d", "b">>,
      <<"$", "3">> \o CRLF \o <<"r", "d">>,
      <<>> }

GetackAll == <<REPLCONF, GETACK, <<"*">>>>

\* What the master sends a replica that streams: frames, well framed or
\* not, and nothing more once it has closed.
MasterWires == {Wire(SetA1), Wire(<<PING>>), Wire(GetackAll), BadBulkHeader, <<>>}

\* What stands in the master's stream when the ingest loop reads: one frame,
\* a frame with a second one behind it, a frame with the start of the next
\* behind it, a frame with a string of more than nine bytes, a frame with an
\* empty string.
StreamWires ==
    { Wire(SetA1),
      Wire(SetA1) \o Wire(<<PING>>),
      Wire(GetackAll) \o <<"*", "2">>,
      Wire(<<REPLCONF, <<"l", "i", "s", "t", "e", "n", "i", "n", "g", "-", "p", "o", "r", "t">>,
             Port>>),
      Wire(<<PING, <<>>>>) \o <<"x">> }

\* Decoding: the ingest loop reads frames, the Store takes the writes.
NextStream ==
    \/ \E w \in StreamWires : ReplicaRead(w)
    \/ StoreSet

SpecStream == InitStreaming /\ [][NextStream]_vars

\* The writes the clients of a master have it accept at time t: SET a 1,
\* SET a 2, SET b 1 and SET b 2 PX 1.
MasterWritesAt(t) ==
    { [key |-> <<"a">>, value |-> RString(<<"1">>), until |-> Absent],
      [key |-> <<"a">>, value |-> RString(<<"2">>), until |-> Absent],
      [key |-> <<"b">>, value |-> RString(<<"1">>), until |-> Absent],
      [key |-> <<"b">>, value |-> RString(<<"2">>), until |-> Some(t + 1)] }

\* A replica and its master: the master accepts writes, the ingest loop reads
\* their frames in the order the master wrote them, the replica's Store
\* applies what the loop sends it.
NextConverge ==
    \/ \E w \in MasterWritesAt(now) : MasterAccepts(w)
    \/ ReplicaReadsLink
    \/ StoreSet

SpecConverge == InitStreaming /\ [][NextConverge]_vars

\* The frames a master of this program sends a replica at time t, and one of
\* a command the replica does not support: SET, SET with PXAT, PING,
\* REPLCONF GETACK *, GET.
IngestWiresAt(t) ==
    { Wire(SetA1),
      ToVec(SetExPayload(<<"b">>, <<"1">>, t + 1)),
      Wire(<<PING>>),
      Wire(GetackAll),
      Wire(GetA) }

\* The ingest loop on a mix of the master's frames.
NextIngest ==
    \/ \E w \in IngestWiresAt(now) : ReplicaRead(w)
    \/ StoreSet

SpecIngest == InitStreaming /\ [][NextIngest]_vars

\* A process with replicaof: the handshake, the ingest loop, and a client of
\* its own that writes and reads.
NextFollow ==
    \/ \E ok \in BOOLEAN : ReplicaConnect(ok)
    \/ \E r \in Answers : ReplicaPing(r)
    \/ \E r \in Answers : ReplicaReplconf1(r)
    \/ \E r \in Answers : ReplicaReplconf2(r)
    \/ \E r \in Answers : ReplicaPsync(r)
    \/ \E w \in Snapshots : ReplicaSnapshot(w)
    \/ \E w \in MasterWires : ReplicaRead(w)
    \/ \E f \in {SetA2, GetA} : ClientFrame("c1", f)
    \/ ClientReply("c1")
    \/ StoreSet
    \/ StoreGet

SpecFollow == InitReplicaOf /\ [][NextFollow]_vars

-----------------------------------------------------------------------------
(* Properties *)

\* The position of connection c in the Store's replica registry, 0 if it has none.
ReplicaPos(c) ==
    IF \E p \in 1..Len(replicas) : replicas[p] = c
    THEN CHOOSE p \in 1..Len(replicas) : replicas[p] = c
    ELSE 0

\* How many of the accepted writes replicate has pushed to the replica at
\* position p: all of them, but for the write in hand when its turn is to come.
PushedTo(p) ==
    IF storeCur.idx > 0 /\ p >= storeCur.idx THEN Len(accepted) - 1 ELSE Len(accepted)

\* The frames of the writes accepted after connection c registered, up to write n.
FramesSince(c, n) ==
    [i \in 1..(n - regAt[c]) |-> ToVec(WritePayload(accepted[regAt[c] + i]))]

\* What a connection has been written and what still waits in its byte channel.
Stream(c) == sock[c] \o replicaRx[c]

\* What handle_psync writes: the +FULLRESYNC line, the bulk header, the snapshot.
PsyncReply == <<FullresyncLine, "$18\r\n", EmptyRdb>>

\* The last message of a channel.
Last(q) == q[Len(q)]

\* The step dequeues a Store command of kind k.
Dequeues(k) == Len(storeQ') < Len(storeQ) /\ Head(storeQ).cmd = k

\* The step is the end of connection c's wait for the reply to handler h.
Answered(c, h) == pc[c] = "wait" /\ pending[c].handler = h /\ pc'[c] # "wait"

\* The step reads frame f from some connection.
Reads(f) == cmdsLeft' < cmdsLeft /\ frame'.cmd = f

PushedToAllBeforeNextDequeue ==
    [][ /\ Len(storeQ') < Len(storeQ) =>
              /\ storePc = "recv"
              /\ \A p \in 1..Len(replicas) :
                    LET r == replicas[p]
                    IN  /\ Len(Stream(r)) = Len(accepted) - regAt[r]
                        /\ Len(accepted) > regAt[r] =>
                              Last(Stream(r)) = ToVec(WritePayload(Last(accepted)))
        /\ storePc = "replicate" => Len(storeQ') >= Len(storeQ)
      ]_vars

\* Two replicas have each been pushed the one write accepted since they
\* registered, and the Store's next command waits in its queue.
BothReplicasPushed ==
    /\ Len(replicas) = 2
    /\ storePc = "recv"
    /\ storeQ # <<>>
    /\ \A p \in 1..Len(replicas) :
          Len(Stream(replicas[p])) = 1 /\ Len(accepted) = regAt[replicas[p]] + 1

\* C3: a write submitted after a connection was sent +FULLRESYNC finds that
\* connection's sink registered or its InitReplica ahead of it in the Store's
\* queue; it is accepted after the registration, and once replicate has pushed
\* it, its frame is in that connection's stream at the place of its acceptance.
RegisteredAheadOfLaterWrites ==
    /\ \A i \in 1..Len(storeQ) :
          storeQ[i].cmd \in {"Set", "SetEx"} =>
              \A c \in storeQ[i].seen :
                  \/ ReplicaPos(c) # 0
                  \/ \E j \in 1..(i - 1) : storeQ[j] = InitReplicaCmd(c)
    /\ \A k \in 1..Len(accepted) :
          \A c \in accepted[k].seen :
              /\ ReplicaPos(c) # 0
              /\ regAt[c] < k
              /\ k <= PushedTo(ReplicaPos(c)) =>
                    /\ Len(Stream(c)) >= k - regAt[c]
                    /\ Stream(c)[k - regAt[c]] = ToVec(WritePayload(accepted[k]))

\* A write submitted after a connection was sent +FULLRESYNC has reached that
\* connection's socket.
LaterWriteDelivered ==
    \E k \in 1..Len(accepted) :
        \E c \in accepted[k].seen :
            /\ regAt[c] < k
            /\ Len(sock[c]) >= k - regAt[c]

\* C4: when a GET k of a connection is answered, and the last write of k
\* submitted before it was a SET without PX that this connection had been
\* answered +OK for, the reply is the bulk string of that SET's value.
ReadYourWrite ==
    [][ \A c \in Conns :
            (Answered(c, "get") /\ expect[c] # Absent)
                => out'[c] = <<WriteString(expect[c][1].s)>>
      ]_vars

\* After SET a 1 and SET a 2, a GET a of the connection that sent the second
\* has been answered 2.
SecondValueRead ==
    \E c \in Conns : /\ out[c] = <<"$1\r\n2\r\n">>
                     /\ expect[c] = Some(RString(<<"2">>))
                     /\ Len(accepted) = 2
                     /\ accepted[1].value # accepted[2].value

\* C5: a request in the Store's queue carries the id of the task that sent
\* it, and a Get, Keys or ReplicaCount reply waits only in the sink of the
\* task whose request it answers, which is waiting for it, has no other
\* message in its sink, and asked for that key with the handler that waits.
RepliesReachTheirRequester ==
    /\ \A i \in 1..Len(storeQ) :
          storeQ[i].cmd \in {"Get", "AllKeys", "ReplicaCount"} =>
              /\ storeQ[i].id = id[storeQ[i].from]
              /\ clients[storeQ[i].id + 1] = storeQ[i].from
    /\ \A c \in Conns :
          \A i \in 1..Len(clientRx[c]) :
              LET m == clientRx[c][i]
              IN  m.resp \in {"Get", "Keys", "ReplicaCount"} =>
                      /\ m.re.from = c
                      /\ m.re.id = id[c]
                      /\ pc[c] = "wait"
                      /\ Len(clientRx[c]) = 1
                      /\ IF m.resp = "Get"
                         THEN /\ pending[c].handler \in {"get", "keys_literal"}
                              /\ pending[c].key = m.re.key
                         ELSE m.resp = "Keys" /\ pending[c].handler = "keys"

\* Two clients each have their reply waiting, one to a GET and one to a KEYS.
TwoRepliesWaiting ==
    \E c, d \in Conns : /\ c # d
                        /\ Len(clientRx[c]) = 1 /\ clientRx[c][1].resp = "Get"
                        /\ Len(clientRx[d]) = 1 /\ clientRx[d][1].resp = "Keys"

\* C6: the i-th sink the Store registers gets id i - 1; no sink is registered
\* twice, no two connections hold the same id, whatever has become of them,
\* and a ClientId(i) message waits only in the sink registered under i.
ClientIdsUnique ==
    /\ \A i, j \in 1..Len(clients) : i # j => clients[i] # clients[j]
    /\ \A c \in Conns :
          /\ id[c] # NoId => /\ id[c] \in 0..(Len(clients) - 1)
                             /\ clients[id[c] + 1] = c
          /\ \A i \in 1..Len(clientRx[c]) :
                clientRx[c][i].resp = "ClientId" =>
                    /\ clientRx[c][i].id \in 0..(Len(clients) - 1)
                    /\ clients[clientRx[c][i].id + 1] = c
    /\ \A c, d \in Conns : (c # d /\ id[c] # NoId /\ id[d] # NoId) => id[c] # id[d]

\* A connection has closed, another feeds a replica, and the third has just
\* been sent the id 2.
ThirdIdAfterCloseAndPromotion ==
    \E c, d, e \in Conns : /\ pc[c] = "done" /\ id[c] # NoId
                           /\ pc[d] = "feed" /\ id[d] # NoId
                           /\ pc[e] = "wait_id"
                           /\ clientRx[e] = <<ClientIdResp(2)>>

\* C7: when the Store handles a Get of a key held with a deadline, the reply
\* carries the value and the map is unchanged if the time is before the
\* deadline; if not, the reply carries no value, the key alone leaves the map
\* and no replica sink is sent anything. The client then writes the bulk
\* string of the value, or nil.
ExpiryOnGet ==
    [][ /\ (/\ Dequeues("Get")
            /\ Head(storeQ).key \in DOMAIN data
            /\ data[Head(storeQ).key].kind = "Expirable") =>
              LET cmd == Head(storeQ)
                  e == data[cmd.key]
                  reply == Last(clientRx'[clients[cmd.id + 1]])
              IN  /\ reply.resp = "Get"
                  /\ reply.re = cmd
                  /\ IF now < e.until
                     THEN /\ reply.value = Some(e.value)
                          /\ data' = data
                     ELSE /\ reply.value = Absent
                          /\ DOMAIN data' = DOMAIN data \ {cmd.key}
                          /\ \A k \in DOMAIN data' : data'[k] = data[k]
                  /\ replicaRx' = replicaRx
                  /\ storeCur' = storeCur
        /\ \A c \in Conns :
              Answered(c, "get") =>
                  LET m == Head(clientRx[c])
                  IN  out'[c] = IF m.value = Absent THEN <<WriteNil>>
                                ELSE <<WriteString(m.value[1].s)>>
      ]_vars

\* With a replica registered, a GET of b past its deadline has been answered nil.
ExpiredReadAnsweredNil ==
    /\ gone = {<<"b">>}
    /\ replicas # <<>>
    /\ frame.cmd = GetB
    /\ out[frame.conn] = <<WriteNil>>

\* C8: a key that a read has expired, and that no write has set since, is in
\* no Keys reply the Store sends and in no KEYS * answer a client writes.
ExpiredKeyOmitted ==
    [][ /\ Dequeues("AllKeys") =>
              LET reply == Last(clientRx'[clients[Head(storeQ).id + 1]])
              IN  /\ reply.resp = "Keys"
                  /\ \A i \in 1..Len(reply.value.a) : reply.value.a[i].s \notin gone
        /\ \A c \in Conns :
              Answered(c, "keys") =>
                  \A k \in gone : \A i \in 1..Len(out'[c]) : out'[c][i] # WriteString(k)
      ]_vars

\* b has expired on a read, and a KEYS * since has been answered with a alone.
KeysAfterExpiry ==
    /\ gone = {<<"b">>}
    /\ frame.cmd = KeysAll
    /\ out[frame.conn] = <<"*1\r\n", "$1\r\na\r\n">>

\* C9: a KEYS whose argument contains '*' without being "*" is answered -ERR
\* general pattern matching unsupported, sends the Store nothing and leaves
\* the task reading; a KEYS of a literal sends one Get of that key, and its
\* answer is the one-element array of the key if the Store found the key
\* present and unexpired, the empty array if not.
KeysArgument ==
    [][ /\ Reads(KeysPattern) =>
              /\ out'[frame'.conn] = <<"-ERR general pattern matching unsupported\r\n">>
              /\ storeQ' = storeQ
              /\ pc'[frame'.conn] = "read"
        /\ Reads(KeysB) =>
              /\ storeQ' = Append(storeQ, GetCmd(id[frame'.conn], <<"b">>, frame'.conn))
              /\ pc'[frame'.conn] = "wait"
        /\ \A c \in Conns :
              Answered(c, "keys_literal") =>
                  out'[c] = IF Head(clientRx[c]).live
                            THEN <<"*1\r\n", WriteString(pending[c].key)>>
                            ELSE <<"*0\r\n">>
      ]_vars

\* KEYS b has been answered with the array of b.
KeysLiteralFound ==
    /\ frame.cmd = KeysB
    /\ out[frame.conn] = <<"*1\r\n", "$1\r\nb\r\n">>

\* The error line each failing frame is answered with.
ExpectedError(f) ==
    CASE f = <<SET, <<"a">>>> ->
            "-ERR wrong number of arguments for 'set' command\r\n"
      [] f = <<SET, <<"a">>, <<"1">>, <<"E", "X">>, <<"1">>>> ->
            "-ERR syntax error\r\n"
      [] f = <<SET, <<"a">>, <<"1">>, PX, <<"x">>>> ->
            "-ERR value is not an integer or out of range\r\n"
      [] f = <<GET>> ->
            "-ERR wrong number of arguments for 'get' command\r\n"
      [] f = <<<<"F", "O", "O">>, <<"a">>, <<"b">>>> ->
            "-ERR Client: unknown command 'FOO', with args beginning with: 'a' 'b'\r\n"
      [] f = <<<<"C", "O", "N", "F", "I", "G">>, <<"F", "O", "O">>>> ->
            "-ERR unknown subcommand 'FOO'. Try CONFIG HELP\r\n"
      [] f = <<<<"H", "E", "L", "L", "O">>, <<"3">>>> ->
            "-ERR wrong number of arguments for 'hello' command\r\n"

\* C10: a frame that fails in its handler is answered with one -ERR line;
\* the Store's queue, map, registries and the replica channels are as
\* before and the task is reading again; and a SET a 1 read next on that
\* connection is answered +OK and sent to the Store.
CommandErrorKeepsServing ==
    [][ /\ (cmdsLeft' < cmdsLeft /\ frame'.cmd \in BadFrames) =>
              LET c == frame'.conn
              IN  /\ out'[c] = <<ExpectedError(frame'.cmd)>>
                  /\ pc'[c] = "read"
                  /\ UNCHANGED <<storeQ, storePc, storeCur, data, clients, replicas,
                                 clientRx, replicaRx, sock, accepted, pending, id>>
        /\ (Reads(SetA1) /\ frame.cmd \in BadFrames /\ frame'.conn = frame.conn) =>
              /\ out'[frame.conn] = <<WriteOk>>
              /\ storeQ' # storeQ
              /\ Last(storeQ').cmd = "Set"
      ]_vars

\* With a replica attached and a key in the map, a SET with the option EX has
\* been answered with an error.
BadOptionAnswered ==
    /\ frame.cmd = <<SET, <<"a">>, <<"1">>, <<"E", "X">>, <<"1">>>>
    /\ out[frame.conn] = <<"-ERR syntax error\r\n">>
    /\ replicas # <<>>
    /\ DOMAIN data # {}

\* The error line each badly framed input is answered with.
ProtocolErrorLine(w) ==
    CASE w = BadBulkHeader      -> "-ERR Protocol error: expected '$', got ':'\r\n"
      [] w = EmptyBulkHeader    -> "-ERR Protocol error: expected '$', got ' '\r\n"
      [] w = BadBulkLength      -> "-ERR Protocol error: invalid bulk length\r\n"
      [] w = BadMultibulkLength -> "-ERR Protocol error: invalid multibulk length\r\n"

\* C11: a read that meets a framing error writes the one -ERR Protocol error
\* line of that error, sends the Store nothing and ends the task; a task that
\* has ended stays ended, writes no more, reads no more frame and sends the
\* Store nothing.
FramingErrorEndsTask ==
    [][ /\ (cmdsLeft' < cmdsLeft /\ frame'.wire \in BadWires) =>
              LET c == frame'.conn
              IN  /\ out'[c] = <<ProtocolErrorLine(frame'.wire)>>
                  /\ pc'[c] = "done"
                  /\ storeQ' = storeQ
        /\ \A c \in Conns :
              pc[c] = "done" =>
                  /\ pc'[c] = "done"
                  /\ out'[c] = out[c]
                  /\ cmdsLeft' < cmdsLeft => frame'.conn # c
                  /\ Len(storeQ') > Len(storeQ) => Last(storeQ').from # c
      ]_vars

\* A connection that had a write accepted has ended on an integer line in the
\* place of a bulk header, and the other connection has read a frame since.
EndedOnBadBulkHeader ==
    \E c \in Conns :
        /\ pc[c] = "done"
        /\ out[c] = <<"-ERR Protocol error: expected '$', got ':'\r\n">>
        /\ \E k \in 1..Len(accepted) : accepted[k].from = c
        /\ frame.conn # c

\* C12: a PSYNC whose arguments are not ? -1 is answered with a single error
\* line and the connection is closed (its task ends); the connection is not
\* promoted and no InitReplica is sent to the Store.
BadPsyncIsProtocolError ==
    [][ (cmdsLeft' < cmdsLeft /\ frame'.cmd \in BadPsyncs) =>
            LET c == frame'.conn
            IN  /\ Len(out'[c]) = 1
                /\ pc'[c] = "done"
                /\ storeQ' = storeQ
      ]_vars

\* A PSYNC ? 0 has been answered while another connection feeds a replica.
BadPsyncAnswered ==
    /\ frame.cmd = <<PSYNC, <<"?">>, <<"0">>>>
    /\ out[frame.conn] = <<"-ERR Unsupported PSYNC arguments\r\n",
                           "-ERR wrong arguments for PSYNC\r\n">>
    /\ pc[frame.conn] = "read"
    /\ pc["c3"] = "feed"
    /\ Len(replicas) = 1

\* C13: in a process with replicaof, every write the Store accepts came
\* through the task that follows the master; a SET of a client connection is
\* not among them.
ClientSetRefused ==
    replicaPc # "off" => \A k \in 1..Len(accepted) : accepted[k].from = "master"

\* While the replica task streams, the Store has taken a write of the
\* client connection c1 and holds its value.
ClientWriteApplied ==
    /\ replicaPc = "stream"
    /\ accepted # <<>>
    /\ Last(accepted).from = "c1"
    /\ "a" \in {Str(k) : k \in DOMAIN data}

\* The task that follows the master reads in its ingest loop.
MasterReads == replicaPc = "stream" /\ cmdsLeft' < cmdsLeft /\ frame'.conn = "master"

\* The chunks of a REPLCONF ACK n, for some n.
IsAck(chunks) ==
    /\ Len(chunks) = 4
    /\ SubSeq(chunks, 1, 3) = <<"*3\r\n", "$8\r\nREPLCONF\r\n", "$3\r\nACK\r\n">>

RECURSIVE SumSeq(_)
SumSeq(ns) == IF ns = <<>> THEN 0 ELSE Head(ns) + SumSeq(Tail(ns))

\* The last chunk of a REPLCONF ACK n.
AckNumber(n) == WriteString(Decimal(n))

\* C15 as stated: the n of the REPLCONF ACK written on a REPLCONF GETACK *
\* is the number of bytes of all frames the ingest loop has decoded, the
\* bytes of that GETACK frame among them.
AckCountsThisFrame ==
    [][ (MasterReads /\ frame'.cmd = GetackAll) =>
            Last(replicaOut') = AckNumber(SumSeq(ingested'))
      ]_vars

\* C15, amended: the n of the REPLCONF ACK written on a REPLCONF GETACK * is
\* the number of bytes of the frames the ingest loop had decoded before that
\* GETACK frame; the bytes of the frame itself are counted from the next
\* acknowledgement on.
AckCountsEarlierFrames ==
    [][ (MasterReads /\ frame'.cmd = GetackAll) =>
            /\ Last(replicaOut') = AckNumber(SumSeq(ingested))
            /\ SumSeq(ingested') = SumSeq(ingested) + Len(frame'.wire)
            /\ total_bytes' = SumSeq(ingested')
      ]_vars

\* A GETACK has been answered after a SET and an earlier GETACK were decoded.
SecondGetackAnswered ==
    /\ frame.conn = "master"
    /\ frame.cmd = GetackAll
    /\ Len(ingested) = 3
    /\ ingested[1] = Len(Wire(SetA1))
    /\ ingested[2] = Len(Wire(GetackAll))
    /\ Last(replicaOut) = AckNumber(Len(Wire(SetA1)) + Len(Wire(GetackAll)))

\* C16: the task enters the ingest loop only from the read of the snapshot
\* that follows a +FULLRESYNC line, and only when that read got the whole
\* bulk; a timeout, a read error or a closed connection in place of the
\* answer to PSYNC does not lead there.
StreamingOnlyAfterSnapshot ==
    [][ (replicaPc # "stream" /\ replicaPc' = "stream") =>
            /\ replicaPc = "snapshot"
            /\ ReadBulkBytes(frame'.wire).res = "Some"
      ]_vars

\* The task is in its ingest loop and the last thing that happened on the
\* master connection was the timeout of the wait for the answer to PSYNC.
StreamingAfterPsyncTimeout ==
    /\ replicaPc = "stream"
    /\ frame.conn = "master"
    /\ frame.ev = "timeout"
    /\ Len(replicaOut) = 14

\* C17: a read of the ingest loop that meets a decode error, or finds that
\* the master has closed the connection, ends the task; a task that has
\* ended reads no further frame.
IngestErrorTerminates ==
    [][ /\ (MasterReads /\ frame'.wire \in {BadBulkHeader, <<>>}) => replicaPc' = "ended"
        /\ replicaPc = "ended" =>
              /\ replicaPc' = "ended"
              /\ cmdsLeft' < cmdsLeft => frame'.conn # "master"
      ]_vars

\* The task is in its ingest loop after that loop has read from a connection
\* that the master had closed (no client has sent a frame).
StreamingAfterMasterClosed ==
    /\ replicaPc = "stream"
    /\ frame.conn = "master"
    /\ frame.ev = "data"
    /\ frame.wire = <<>>
    /\ cmdsLeft < MaxCmds
    /\ \A c \in Conns : pc[c] = "read" /\ out[c] = <<>>

\* C18: when the wait for the answer to PING ends in anything but the line
\* +PONG (the timeout, a read error, a closed connection, another line), the
\* task ends having written the PING alone and having sent the Store
\* nothing; once ended it stays ended, writes nothing and sends nothing; and
\* a SET that a client sends after that is answered +OK and sent to the
\* Store as before.
NoPongEndsReplicaTaskOnly ==
    [][ /\ (replicaPc = "ping" /\ replicaPc' # "ping"
               /\ ~(frame'.ev = "data" /\ frame'.wire = PongLine \o CRLF)) =>
              /\ replicaPc' = "ended"
              /\ replicaOut' = WriteValue(PingCmd)
              /\ UNCHANGED <<storeQ, storePc, data, clients, clientRx, pc, out>>
        /\ replicaPc = "ended" =>
              /\ replicaPc' = "ended"
              /\ replicaOut' = replicaOut
              /\ Len(storeQ') > Len(storeQ) => Last(storeQ').from # "master"
        /\ (replicaPc = "ended" /\ cmdsLeft' < cmdsLeft /\ frame'.cmd = SetA2) =>
              /\ frame'.conn = "c1"
              /\ out'["c1"] = <<WriteOk>>
              /\ storeQ' = Append(storeQ, SetCmd(<<"a">>, RString(<<"2">>), "c1",
                                                 SentFullresync))
      ]_vars

\* The task has ended with the PING as all it wrote, and the process has
\* taken a client's write and answered its GET with the value.
EndedAtPingStillServing ==
    /\ replicaPc = "ended"
    /\ replicaOut = WriteValue(PingCmd)
    /\ \E k \in 1..Len(accepted) : accepted[k].from = "c1"
    /\ frame.conn = "c1"
    /\ frame.cmd = GetA
    /\ out["c1"] = <<"$1\r\n2\r\n">>

\* The Store stands in replicate before a sink that is full.
StoreBlocked ==
    /\ storePc = "replicate"
    /\ Len(replicaRx[replicas[storeCur.idx]]) = REPLICA_BUFFER

\* C19: no replica's channel ever holds more than 16 buffers; and while the
\* Store stands before a full sink it takes no command from its queue,
\* applies no write and answers no request: the only steps are clients
\* queueing commands and the feeder taking a buffer.
ReplicaSinkBounded ==
    /\ [](\A c \in Conns : Len(replicaRx[c]) <= REPLICA_BUFFER)
    /\ [][ StoreBlocked =>
              /\ UNCHANGED <<storePc, storeCur, data, accepted, replicas, clients>>
              /\ \A c \in Conns : Len(clientRx'[c]) <= Len(clientRx[c])
              /\ Len(storeQ') >= Len(storeQ)
              /\ SubSeq(storeQ', 1, Len(storeQ)) = storeQ
              /\ \A c \in Conns : Len(replicaRx'[c]) <= Len(replicaRx[c])
         ]_vars

\* The Store stands before the full sink of c3 with a write in hand, while a
\* write of c1 and a read of c2 wait in its queue.
StoreWaitsOnFullSink ==
    /\ StoreBlocked
    /\ Len(replicaRx["c3"]) = 16
    /\ Len(storeQ) = 2
    /\ pc["c2"] = "wait"

\* The text of an element of a frame: the string, or the digits of the number.
ElementText(e) == IF e.t = "String" THEN e.s ELSE Decimal(e.n)

\* read_command has returned cnt, and cnt holds the elements of the array v
\* in their order.
DecodesTo(cnt, v) ==
    /\ cnt.res = "Some"
    /\ Len(cnt.payload) = Len(v.a)
    /\ \A i \in 1..Len(v.a) : cnt.payload[i] = ElementText(v.a[i])

\* C20: the bytes the Store hands to the replica channels for a write decode,
\* with read_command, to the elements of the frame they encode, in order.
FanoutRoundTrip ==
    storePc = "replicate" =>
        DecodesTo(ReadCommand(storeCur.bytes), WritePayload(storeCur.w))

\* A buffer waits in a replica channel that read_command answers with the
\* protocol error of a line beginning ':' where a bulk header is expected.
FanoutFrameUndecodable ==
    \E c \in Conns : \E i \in 1..Len(replicaRx[c]) :
        /\ ReadCommand(replicaRx[c][i]).res = "Err"
        /\ ReadCommand(replicaRx[c][i]).msg = "Protocol error: expected '$', got ':'"

\* The bytes of the first frame in w: the * line, then for each string its
\* $ line, its bytes and the CRLF after them.
FrameBytes(w, payload) ==
    LineEnd(w) + SumSeq([i \in 1..Len(payload) |->
                           1 + Len(Decimal(Len(payload[i]))) + 2 + Len(payload[i]) + 2])

\* C21: the length read_command reports for a multi-bulk frame is the number
\* of bytes of that frame, which is the number of bytes the read took from
\* the stream; so the sum of the lengths reported so far is the number of
\* bytes taken from the stream so far.
LengthIsBytesConsumed ==
    /\ [][ (MasterReads /\ frame'.cmd # <<>>) =>
              /\ total_bytes' - total_bytes = FrameBytes(frame'.wire, frame'.cmd)
              /\ total_bytes' - total_bytes = Last(ingested')
              /\ ReadCommand(frame'.wire).rest
                    = SubSeq(frame'.wire, Last(ingested') + 1, Len(frame'.wire))
         ]_vars
    /\ [](total_bytes = SumSeq(ingested))

\* Two frames have been decoded, the second with another frame behind it in
\* the stream, after a first with a string of fourteen bytes.
TwoFramesDecoded ==
    /\ Len(ingested) = 2
    /\ ingested[1] = 49
    /\ frame.wire = Wire(SetA1) \o Wire(<<PING>>)
    /\ total_bytes = 49 + 27

-----------------------------------------------------------------------------
(* INFO and the replication id *)

HexChars ==
    {"0", "1", "2", "3", "4", "5", "6", "7", "8", "9", "a", "b", "c", "d", "e", "f"}

\* The replication section with the given role, slave count, id and offset.
ReplicationSection(role, slaves, replid, offset) ==
    "# Replication\r\nrole:" \o role
    \o "\r\nconnected_slaves:" \o Str(Decimal(slaves))
    \o "\r\nmaster_replid:" \o replid
    \o "\r\nmaster_repl_offset:" \o Str(Decimal(offset))

\* The frames that ask for the replication section and nothing else.
AsksReplication == {InfoAll, InfoReplication, InfoReplicationCaps, InfoTwice}

\* The latest frame is an INFO of the set fs and connection c has answered it.
InfoAnswered(c, fs) == frame.conn = c /\ frame.cmd \in fs /\ out[c] # <<>>

\* C22: in every state the digest the Config task answers is one and the
\* same string of 40 hex characters; the +FULLRESYNC line written to a
\* promoted connection carries it, and so does the master_replid line of
\* every reply to INFO replication.
ReplidStable ==
    /\ DigestString(config.replica) = Str(ReplidChars)
    /\ Len(ReplidChars) = 40
    /\ \A i \in 1..Len(ReplidChars) : ReplidChars[i] \in HexChars
    /\ \A c \in Conns :
          pc[c] = "feed" => out[c][1] = "+FULLRESYNC " \o Str(ReplidChars) \o " 0\r\n"
    /\ \A c \in Conns :
          InfoAnswered(c, AsksReplication) =>
             \E role \in {"master", "slave"}, slaves \in 0..3, offset \in 0..3 :
                out[c] = <<WriteText(ReplicationSection(role, slaves, Str(ReplidChars), offset)
                                     \o "\r\n")>>

\* A replica has been sent +FULLRESYNC and INFO replication is answered
\* after it.
InfoAfterFullresync ==
    /\ pc["c3"] = "feed"
    /\ Len(out["c3"]) = 3
    /\ InfoAnswered("c1", {InfoReplication})

\* C23: whatever replicas have attached and whatever writes have been
\* replicated, a reply to INFO replication is the five lines # Replication,
\* role, connected_slaves:0, master_replid and master_repl_offset:0 joined by
\* CRLF, and the role is slave exactly when replicaof is configured.
ReplicationSectionFixed ==
    \A c \in Conns :
       InfoAnswered(c, AsksReplication) =>
          out[c] = <<WriteText(
                       "# Replication\r\n"
                       \o (IF "replicaof" \in DOMAIN config.store
                           THEN "role:slave" ELSE "role:master") \o "\r\n"
                       \o "connected_slaves:0\r\n"
                       \o "master_replid:da39a3ee5e6b4b0d3255bfef95601890afd80709\r\n"
                       \o "master_repl_offset:0"
                       \o "\r\n")>>

\* INFO replication is answered by a master that has a replica registered
\* and has fed it a write.
InfoWithReplicaFed ==
    /\ InfoAnswered("c1", {InfoReplicationCaps})
    /\ "replicaof" \notin DOMAIN config.store
    /\ Len(replicas) = 1
    /\ sock["c3"] # <<>>

\* C24: an unknown section name contributes nothing to the reply of INFO:
\* with only unknown names the reply is the empty bulk string, and with
\* known and unknown names it is the reply to the known names alone.
UnknownSectionsContributeNothing ==
    \A c \in Conns :
       /\ InfoAnswered(c, {InfoServer, InfoUnknowns}) => out[c] = <<"$0\r\n\r\n">>
       /\ InfoAnswered(c, {InfoKnownUnknown, InfoUnknownKnown}) =>
             out[c] = HandleInfo(<<REPLICATION>>, config).out

\* INFO server has been answered with the bulk string that holds a CRLF.
UnknownSectionAnsweredCrlf ==
    /\ InfoAnswered("c1", {InfoServer})
    /\ out["c1"] = <<"$2\r\n\r\n\r\n">>

-----------------------------------------------------------------------------
(* Configuration *)

\* C25: update(k, v) with k one of bind-source-addr, dbfilename, dir, port,
\* replicaof, master_replid returns the value k held before, or none, and
\* get(k) is v afterwards; with any other k it fails and leaves the map as
\* it was. After any calls of update and bulk_update the keys of the map are
\* among those six.
UpdateClosedSet ==
    LET closedSet == {"bind-source-addr", "dbfilename", "dir", "port", "replicaof",
                      "master_replid"}
        k == updated.pairs[1][1]
        v == updated.pairs[1][2]
    IN  /\ DOMAIN config.store \subseteq closedSet
        /\ updated.call = "update" =>
              IF k \in closedSet
              THEN /\ updated.ok
                   /\ updated.current = IF k \in DOMAIN updated.before.store
                                        THEN <<updated.before.store[k]>> ELSE <<>>
                   /\ ConfigGet(config, k) = <<v>>
              ELSE /\ ~updated.ok
                   /\ config = updated.before

\* Every key of the closed set is set, and the last call, an update of a key
\* outside it, has failed.
UnknownKeyRefused ==
    /\ DOMAIN config.store = ACCEPTABLE_KEYS
    /\ updated.call = "update"
    /\ updated.pairs[1][1] = "PORT"
    /\ ~updated.ok

-----------------------------------------------------------------------------
(* Entries loaded from a snapshot file *)

\* The files that hold a without expiry.
FilesWithA ==
    {EntryA \o <<255>>}
    \cup {EntryA \o MillisB(ms) \o <<255>> : ms \in 0..MaxTime + 1}
    \cup {SecsB(secs) \o EntryA \o <<255>> : secs \in 0..1}

\* The files that hold b with the deadline until (in milliseconds).
FilesWithB(until) ==
    {f \in {MillisB(until) \o <<255>>, EntryA \o MillisB(until) \o <<255>>} :
        until <= MaxTime + 1}
    \cup {SecsB(secs) \o EntryA \o <<255>> : secs \in {x \in 0..1 : x * 1000 = until}}

-----------------------------------------------------------------------------
(* Connections that close and tasks that end *)

\* C27: a read of a client task whose peer has closed the connection, be it
\* between frames, after the * line or after a $ header, is the last of the
\* task: the task leaves its loop.
ClosedClientLeavesLoop ==
    [][ \A c \in Conns :
           (/\ c \in closed
            /\ pc[c] = "read"
            /\ cmdsLeft' < cmdsLeft
            /\ frame'.conn = c
            /\ frame'.wire \in EofWires) => pc'[c] \in {"done", "panicked"} ]_vars

\* The peer of c1 has closed between frames, c1 has read the end of the
\* stream as often as the bound allows and is still in its loop.
ClosedClientStillReading ==
    /\ "c1" \in closed
    /\ cmdsLeft = 0
    /\ frame = [conn |-> "c1", cmd |-> <<>>, wire |-> <<>>, ev |-> "data"]
    /\ out["c1"] = <<>>
    /\ pc["c1"] = "read"

\* The Get and AllKeys requests of connection c that wait in the Store's queue.
Outstanding(c) ==
    {i \in 1..Len(storeQ) : storeQ[i].cmd \in {"Get", "AllKeys"} /\ storeQ[i].from = c}

\* C28: of each client task at most one Get or AllKeys is in the Store's
\* queue or answered and not yet received, and then the task is awaiting it;
\* so a client reply sink holds at most one message, which is below its
\* capacity, and the Store's send to it does not wait.
OneReplyOutstanding ==
    \A c \in Conns :
       /\ Cardinality(Outstanding(c)) + Len(clientRx[c]) <= 1
       /\ Cardinality(Outstanding(c)) + Len(clientRx[c]) = 1 => pc[c] = "wait"
       /\ Len(clientRx[c]) < CLIENT_BUFFER

\* Each of two clients has a reply in its sink that it has yet to receive,
\* after earlier requests of both were answered.
RepliesUndelivered ==
    /\ Len(clientRx["c1"]) = 1
    /\ Len(clientRx["c2"]) = 1
    /\ cmdsLeft = 0

\* C29: the Store task does not end, whatever connection has been closed and
\* whatever feeder task has ended; the writes and reads the remaining
\* clients send later are processed.
StoreNeverStops == storePc # "panicked"

\* The feeder of c3 has ended on its closed connection, the Store has ended
\* on the next write it replicated, and a write of another client waits in
\* its queue.
StoreEndedAfterFeeder ==
    /\ "c3" \in closed
    /\ pc["c3"] = "panicked"
    /\ storePc = "panicked"
    /\ storeQ # <<>>
    /\ Head(storeQ).cmd \in {"Set", "SetEx"}
    /\ Head(storeQ).from # "c3"

\* C30: a client that awaits the reply to a GET or a KEYS is eventually
\* answered, the Store and the client tasks being scheduled fairly, even
\* when a registered replica has stopped reading.
RequestsEventuallyAnswered ==
    \A c \in Conns : (pc[c] = "wait") ~> (pc[c] # "wait")

\* The channel of the stalled replica is full, the Store stands in
\* replicate with the next write, and the GET of c2 waits in its queue.
StoreBlockedBehindReplica ==
    /\ storePc = "replicate"
    /\ Len(replicaRx["c3"]) = REPLICA_BUFFER
    /\ pc["c2"] = "wait"
    /\ \E i \in 1..Len(storeQ) : storeQ[i].cmd = "Get" /\ storeQ[i].from = "c2"

\* C31: a write acknowledged to one connection is visible to all: when a GET
\* of a key is answered and the last write of that key submitted by any
\* connection before the GET was a SET without PX (its +OK is written when it
\* is submitted, before the Store has applied it), the reply is that value.
AckedWriteVisibleToAll ==
    [][ \A c \in Conns :
          (Answered(c, "get") /\ visible[c] # Absent)
              => out'[c] = <<WriteString(visible[c][1].s)>> ]_vars

\* c2, which wrote nothing itself, has been answered the value c1 had set.
OtherClientReadsAckedWrite ==
    /\ frame.conn = "c2"
    /\ frame.cmd = GetA
    /\ expect["c2"] = Absent
    /\ visible["c2"] # Absent
    /\ \A i \in 1..Len(accepted) : accepted[i].from = "c1"
    /\ pc["c2"] = "read"
    /\ out["c2"] = <<WriteString(visible["c2"][1].s)>>

\* The ingest loop has read every frame the master wrote and the Store of the
\* replica has applied every write the loop sent it.
ReplicaCaughtUp ==
    /\ master.link = <<>>
    /\ storeQ = <<>>
    /\ storePc = "recv"
    /\ replicaPc = "stream"

\* C32: once the replica has consumed every frame sent to it, its Store
\* holds, for every key whose last write on the master was a SET without PX
\* accepted after the replica attached, the entry the master's Store holds.
PlainWritesConverge ==
    ReplicaCaughtUp =>
        \A k \in DOMAIN master.data :
            master.data[k].kind = "Permanent" =>
                k \in DOMAIN data /\ data[k] = master.data[k]

\* The replica has caught up with a master on which a was set twice and b
\* once, with different values.
ReplicaHoldsMastersValues ==
    /\ ReplicaCaughtUp
    /\ Len(ingested) = 3
    /\ DOMAIN master.data = {<<"a">>, <<"b">>}
    /\ master.data[<<"a">>] = Permanent(RString(<<"2">>))
    /\ master.data[<<"b">>] = Permanent(RString(<<"1">>))
    /\ data = master.data

\* C33: once the replica has consumed the frame of a SET with PX that its
\* master accepted after it attached, it holds the key with the value and the
\* absolute deadline the master holds.
ExpiringWritesConverge ==
    ReplicaCaughtUp =>
        \A k \in DOMAIN master.data :
            master.data[k].kind = "Expirable" =>
                k \in DOMAIN data /\ data[k] = master.data[k]

\* The ingest loop has read the frame of SET b 2 PX 1, the only write of its
\* master, and the replica holds no b.
ExpiringWriteLost ==
    /\ ReplicaCaughtUp
    /\ master.data = StoreWrite(EmptyMap, <<"b">>, RString(<<"2">>), Some(now + 1))
    /\ frame.conn = "master"
    /\ frame.wire = ToVec(SetExPayload(<<"b">>, <<"2">>, now + 1))
    /\ ReadCommand(frame.wire).res = "Err"
    /\ total_bytes = 0
    /\ data = EmptyMap

\* The bytes a read of the ingest loop took from the stream w.
BytesTaken(w) == Len(w) - Len(ReadCommand(w).rest)

\* C34: between frames total_bytes is the number of bytes the ingest loop
\* has read from the master since the handshake: it starts at 0, every read
\* of a frame (SET, SET with PXAT, PING, REPLCONF GETACK, an unsupported
\* command) adds the bytes the read took from the stream, and the counter
\* never decreases.
TotalBytesCountsBytesRead ==
    [][ /\ total_bytes' >= total_bytes
        /\ MasterReads => total_bytes' - total_bytes = BytesTaken(frame'.wire) ]_vars

\* The loop has read a SET with PXAT and then a PING: 47 bytes, of which
\* total_bytes counts the 14 of the PING.
PxatFrameUncounted ==
    /\ replicaPc = "stream"
    /\ cmdsLeft = MaxCmds - 2
    /\ frame.wire = Wire(<<PING>>)
    /\ ingested = <<14>>
    /\ total_bytes = 14
    /\ data = EmptyMap
    /\ storeQ = <<>>

\* C35: the Keys reply the Store sends for a KEYS * names no key whose
\* deadline has passed, whether or not a GET has read the key since.
KeysOmitPastDeadline ==
    [][ Dequeues("AllKeys") =>
          LET reply == Last(clientRx'[clients[Head(storeQ).id + 1]])
          IN  \A i \in 1..Len(reply.value.a) :
                 data[reply.value.a[i].s].kind = "Expirable"
                    => now <= data[reply.value.a[i].s].until ]_vars

\* b's deadline has passed, no GET has read b since, and the KEYS * just
\* answered names b.
KeysNamesExpiredKey ==
    /\ frame.cmd = KeysAll
    /\ pc["c1"] = "read"
    /\ <<"b">> \in DOMAIN data
    /\ data[<<"b">>].kind = "Expirable"
    /\ data[<<"b">>].until < now
    /\ gone = {}
    /\ \E i \in 1..Len(out["c1"]) : out["c1"][i] = WriteString(<<"b">>)

\* The writes the Store has dequeued, in order.
AcceptedWrites ==
    [i \in 1..Len(accepted) |->
        [key |-> accepted[i].key, value |-> accepted[i].value,
         plain |-> accepted[i].until = Absent]]

\* The step is the Store's store.write for a Set or SetEx: at the dequeue
\* when no replica is registered, after the last send of replicate if one is.
AppliesWrite ==
    \/ (Dequeues("Set") \/ Dequeues("SetEx")) /\ replicas = <<>>
    \/ storePc = "replicate" /\ storePc' = "recv"

\* The write that such a step applies.
WriteApplied == IF storePc = "replicate" THEN storeCur.w ELSE AsWrite(Head(storeQ))

\* C36: a Set or SetEx sets its key's entry (permanent for a SET without PX,
\* whatever the entry was), changes no other entry and neither registry; and
\* a GET of a key whose last write was a SET without PX is answered with
\* that write's value at whatever time it comes, the map staying as it is.
PlainSetMakesPermanent ==
    [][ /\ AppliesWrite =>
              /\ data' = [k \in DOMAIN data \cup {WriteApplied.key} |->
                            IF k # WriteApplied.key THEN data[k]
                            ELSE IF WriteApplied.until = Absent
                                 THEN [kind |-> "Permanent", value |-> WriteApplied.value]
                                 ELSE [kind |-> "Expirable", value |-> WriteApplied.value,
                                       until |-> WriteApplied.until[1]]]
              /\ clients' = clients
              /\ replicas' = replicas
        /\ (Dequeues("Get") /\ LastPlainWrite(AcceptedWrites, Head(storeQ).key) # Absent) =>
              /\ Last(clientRx'[clients[Head(storeQ).id + 1]]).value
                    = LastPlainWrite(AcceptedWrites, Head(storeQ).key)
              /\ data' = data
      ]_vars

\* b was set with PX 1 and then without PX; the deadline of the first SET
\* has come and GET b has been answered with the second value.
PermanentAfterExpirable ==
    /\ Len(accepted) = 2
    /\ accepted[1].key = <<"b">> /\ accepted[1].until = Some(1)
    /\ accepted[2].key = <<"b">> /\ accepted[2].until = Absent
    /\ now = 1
    /\ frame.cmd = GetB
    /\ pc["c1"] = "read"
    /\ out["c1"] = <<WriteString(<<"2">>)>>

\* The chunk is the size line of an array.
IsArraySize(chunk) == \E n \in 0..32 : chunk = WriteArraySize(n)

RECURSIVE ValueEnd(_, _, _)
\* The index of the chunk after the n values that begin at chunk i: a value
\* is one chunk (a line, a bulk string) or the size line of an array and the
\* values of its elements.
ValueEnd(chunks, i, n) ==
    IF n = 0 \/ i > Len(chunks) THEN i
    ELSE IF IsArraySize(chunks[i])
         THEN ValueEnd(chunks,
                       ValueEnd(chunks, i + 1,
                                CHOOSE m \in 0..32 : chunks[i] = WriteArraySize(m)),
                       n - 1)
         ELSE ValueEnd(chunks, i + 1, n - 1)

\* The chunks are those of exactly one value.
OneReply(chunks) == chunks # <<>> /\ ValueEnd(chunks, 1, 1) = Len(chunks) + 1

\* C37: on a connection in command mode every decoded command frame is
\* answered with exactly one reply, a value or an error line, written by the
\* handler or, for GET and KEYS, when the Store's response has come; so a
\* rejected command, such as a PSYNC with unsupported arguments, writes one
\* error line.
OneReplyPerCommand ==
    [][ \A c \in Conns :
          /\ (/\ cmdsLeft' < cmdsLeft
              /\ frame'.conn = c
              /\ frame'.cmd # <<>>
              /\ pc'[c] = "read") => OneReply(out'[c])
          /\ (pc[c] = "wait" /\ pc'[c] = "read") => OneReply(out'[c])
      ]_vars

\* A PSYNC without arguments has been answered with two error lines, and the
\* connection reads on.
TwoErrorLinesForOneCommand ==
    /\ frame.cmd = <<PSYNC>>
    /\ pc[frame.conn] = "read"
    /\ Len(out[frame.conn]) = 2
    /\ ~OneReply(out[frame.conn])
    /\ OneReply(<<out[frame.conn][1]>>)
    /\ OneReply(<<out[frame.conn][2]>>)

\* C38: the client task survives every frame read_command returns: after
\* the step that handles a decoded frame, an empty one included, the task is
\* in its loop (reading, or awaiting the Store's response), so later
\* commands are served.
TaskSurvivesEveryFrame ==
    [][ \A c \in {"c1", "c2"} :
          (/\ cmdsLeft' < cmdsLeft
           /\ frame'.conn = c
           /\ ReadCommand(frame'.wire).res = "Some") => pc'[c] \in {"read", "wait"}
      ]_vars

\* c1 has been sent *0 after its SET was served, and its task has panicked;
\* c2 is still served.
EmptyFrameEndedTask ==
    /\ frame.conn = "c1"
    /\ frame.wire = EmptyMultibulk
    /\ ReadCommand(frame.wire).res = "Some"
    /\ ReadCommand(frame.wire).payload = <<>>
    /\ pc["c1"] = "panicked"
    /\ pc["c2"] = "read"
    /\ Len(accepted) = 1

\* C39: every value in the Store's map, and every value a queued Set or
\* SetEx carries, is a String, whether it came from the snapshot file, from a
\* client's SET or from the master; the Store never takes the branch that
\* panics on another type, and every GET is answered with nil or with the
\* bulk string of the value the Store sent.
OnlyStringsStored ==
    /\ [](/\ \A k \in DOMAIN data : data[k].value.t = "String"
          /\ \A i \in 1..Len(storeQ) :
                IsWriteCmd(storeQ[i]) => storeQ[i].value.t = "String"
          /\ storePc # "panicked")
    /\ [][ \A c \in Conns :
              Answered(c, "get") =>
                  IF Head(clientRx[c]).value = Absent
                  THEN out'[c] = <<WriteNil>>
                  ELSE /\ Head(clientRx[c]).value[1].t = "String"
                       /\ out'[c] = <<WriteString(Head(clientRx[c]).value[1].s)>>
          ]_vars

\* The map holds a value from the master and one from a client, written
\* after a replica attached, and a GET has been answered with a bulk string.
StringsFromEverySource ==
    /\ DOMAIN data = {<<"a">>, <<"b">>}
    /\ rdbFile = EntryInt \o <<255>>
    /\ \E i \in 1..Len(accepted) : accepted[i].from = "master"
    /\ \E i \in 1..Len(accepted) : accepted[i].from = "c1"
    /\ replicas = <<"c3">>
    /\ frame.cmd = GetA
    /\ pc["c1"] = "read"
    /\ out["c1"] = <<WriteString(<<"2">>)>>

\* The bytes of the value of a file of one special-encoded entry: the
\* encoding byte, the integer's bytes, and the end of the file.
ValueBytes(f) == SubSeq(f, 4, Len(f))

\* The bytes a special encoding of code c has: 1, 2 or 4.
SpecialWidth(c) == IF c = 0 THEN 1 ELSE IF c = 1 THEN 2 ELSE 4

\* C40: the string decoder reads the 1, 2 or 4 bytes after a special
\* encoding of code 0, 1 or 2 as a little-endian signed integer and yields
\* its decimal digits, which is the value the Store then holds (01 00 after
\* code 1 yields "1"); code 3 yields the error of the unimplemented
\* compressed string.
SpecialEncodingLittleEndian ==
    /\ RdbReadString(<<195, 1, 1, 97>>)
          = RdbErr("Unimplemented: reading compressed string")
    /\ \A c \in 0..2 :
          ValueBytes(rdbFile)[1] = 192 + c =>
              /\ RdbReadString(ValueBytes(rdbFile)).ok
              /\ RdbReadString(ValueBytes(rdbFile)).string
                    = SignedToString(Signed(IntBytesLe(SubSeq(ValueBytes(rdbFile), 2,
                                                              1 + SpecialWidth(c))),
                                            SpecialWidth(c)))
              /\ data[<<"a">>].value = RString(RdbReadString(ValueBytes(rdbFile)).string)

\* The file held a with the bytes 01 00 after code 1, and GET a has been
\* answered 256.
SixteenBitsReadBigEndian ==
    /\ rdbFile = SpecialEntry(1, <<1, 0>>) \o <<255>>
    /\ data[<<"a">>] = Permanent(RString(<<"2", "5", "6">>))
    /\ frame.cmd = GetA
    /\ pc[frame.conn] = "read"
    /\ out[frame.conn] = <<"$3\r\n256\r\n">>

============================================================================
